---- MODULE Spec2Model ----
(***************************************************************************)
(* State-machine model of tllm's terminal chat client:                     *)
(*   - the chat view's render loop (src/src/display.rs, chat),             *)
(*   - the view manager (display_manager),                                 *)
(*   - the streaming workers (src/src/network.rs, prompt_stream and the    *)
(*     two SSE decoders).                                                  *)
(* Strings are sequences of bytes; a byte is written as a one-token TLA+   *)
(* string ("a", "\n", ...).                                                *)
(***************************************************************************)
EXTENDS Integers, Sequences, FiniteSets, TLC

VARIABLES
    proc,       \* the process: "running" | "exited" | "panicked" | "returned"
    api,        \* the provider selector handed to chat() and to every worker
    workers,    \* worker threads spawned by submissions, by index
    chan,       \* the mpsc queue of the running chat view (tx -> rx)
    overflow_checks, \* build profile: TRUE when integer overflow panics
    frame,      \* the areas the layout gives the chat box and the input box
    window,     \* display_manager's current WindowView
    view_pc,    \* where the thread of the current view stands
    state,      \* the chat view's ChatState
    conversation, \* the conversation chat() loaded when it was entered
    conversation_path, \* the path display_manager hands to chat()
    disk,       \* the conversation files, by path
    args,       \* the arguments of a function called on its own
    result      \* what that call returned (NoResult while it has not)

vars == <<proc, api, workers, chan, overflow_checks, frame, window, view_pc,
          state, conversation, conversation_path, disk, args, result>>

----------------------------------------------------------------------------
(* Bounds of the model. *)

\* lines a worker reads from its response stream before the stream ends
MaxLines == 2
\* longest text carried by one SSE event
MaxTextLen == 2
\* submissions (hence workers) per run
MaxWorkers == 2

----------------------------------------------------------------------------
(* Bytes and strings. *)

Backslash == "\\"
DQuote == "\""
Apostrophe == "'"
Newline == "\n"

\* all byte strings over S of length at most n
StringsUpTo(S, n) == UNION {[1..k -> S] : k \in 0..n}

RECURSIVE Concat(_)
\* concatenation of a sequence of strings
Concat(ss) == IF ss = <<>> THEN <<>> ELSE Head(ss) \o Concat(Tail(ss))

IsPrefix(p, s) == Len(p) <= Len(s) /\ SubSeq(s, 1, Len(p)) = p

RECURSIVE Replace(_, _, _)
\* str::replace: every non-overlapping match of `from`, left to right
Replace(s, from, to) ==
    IF Len(s) < Len(from) THEN s
    ELSE IF IsPrefix(from, s)
         THEN to \o Replace(SubSeq(s, Len(from) + 1, Len(s)), from, to)
         ELSE <<Head(s)>> \o Replace(Tail(s), from, to)

----------------------------------------------------------------------------
(* usize arithmetic. The width is scaled down to 16 bits; a result outside *)
(* the range panics when overflow_checks is set and wraps otherwise.       *)

UsizeBits == 16
UsizeMax == 2^UsizeBits - 1
\* what an integer-valued operation yields when it panics
PANIC == -1
\* what a record-valued operation yields when it panics
Panicked == [panic |-> TRUE]

\* the value of an arithmetic expression x, or PANIC
Checked(x) ==
    IF x >= 0 /\ x <= UsizeMax THEN x
    ELSE IF overflow_checks THEN PANIC ELSE (x + 2^UsizeBits) % (2^UsizeBits)

Min(a, b) == IF a <= b THEN a ELSE b
Max(a, b) == IF a >= b THEN a ELSE b

----------------------------------------------------------------------------
(* UTF-8. A multi-byte code point is a lead byte followed by continuation  *)
(* bytes, named by their hex values: U+2500 is E2 94 80, U+00E9 is C3 A9.  *)

IsContinuation(b) == b \in {"94", "80", "A9"}
len_utf8(b) == CASE b = "E2" -> 3 [] b = "C3" -> 2 [] OTHER -> 1
is_whitespace(b) == b \in {" ", "\n", "\t", "\r"}

\* "\n", three U+2500, "\n"
Separator ==
    <<Newline, "E2", "94", "80", "E2", "94", "80", "E2", "94", "80", Newline>>

----------------------------------------------------------------------------
(* WrappedText: [content, line_lengths, page, window_size].                *)
(* Offsets are 0-based as in the source; content[i + 1] is byte i.         *)

NewWrappedText ==
    [content |-> <<>>, line_lengths |-> <<>>, page |-> 0, window_size |-> <<0, 0>>]

\* the caller has offset <= Len(content), as as_bytes()[offset] requires
is_byte_boundary(content, offset) ==
    \/ offset = 0
    \/ offset = Len(content)
    \/ ~IsContinuation(content[offset + 1])

RECURSIVE find_prev_byte_boundary(_, _)
find_prev_byte_boundary(content, offset) ==
    IF offset > Len(content) THEN PANIC
    ELSE IF offset > 0 /\ ~is_byte_boundary(content, offset)
         THEN find_prev_byte_boundary(content, offset - 1)
         ELSE offset

RECURSIVE find_next_byte_boundary(_, _)
find_next_byte_boundary(content, offset) ==
    IF offset < Len(content) /\ ~is_byte_boundary(content, offset)
    THEN find_next_byte_boundary(content, offset + 1)
    ELSE offset

RECURSIVE SumLengths(_, _)
\* line_lengths[0] + ... + line_lengths[n - 1]
SumLengths(ll, n) == IF n = 0 THEN 0 ELSE ll[n] + SumLengths(ll, n - 1)

get_flat(wt, line, offset, previous_byte_boundary) ==
    IF offset = PANIC \/ line = PANIC \/ line > Len(wt.line_lengths) THEN PANIC
    ELSE LET flat == Checked(offset + SumLengths(wt.line_lengths, line))
         IN  IF flat = PANIC THEN PANIC
             ELSE IF previous_byte_boundary
                  THEN find_prev_byte_boundary(wt.content, flat)
                  ELSE find_next_byte_boundary(wt.content, flat)

\* str::find(char::is_whitespace) on content[offset..]: the distance, or -1
RECURSIVE FindWhitespace(_, _)
FindWhitespace(content, offset) ==
    IF offset >= Len(content) THEN -1
    ELSE IF is_whitespace(content[offset + 1]) THEN 0
    ELSE LET d == FindWhitespace(content, offset + 1)
         IN  IF d < 0 THEN -1 ELSE d + 1

\* str::rfind(char::is_whitespace) on content[..offset]: the index, or -1
RECURSIVE RFindWhitespace(_, _)
RFindWhitespace(content, offset) ==
    IF offset = 0 THEN -1
    ELSE IF is_whitespace(content[offset]) THEN offset - 1
    ELSE RFindWhitespace(content, offset - 1)

next_whitespace_distance(wt, line, column) ==
    LET offset == get_flat(wt, line, Checked(column + 1), FALSE)
    IN  IF offset = PANIC THEN PANIC
        ELSE IF offset > Len(wt.content) THEN 0
        ELSE LET d == FindWhitespace(wt.content, offset)
             IN  IF d >= 0 THEN d ELSE Len(wt.content) - offset

prev_whitespace_distance(wt, line, column) ==
    LET offset == get_flat(wt, line, Checked(column + 1), FALSE)
    IN  IF offset = PANIC THEN PANIC
        ELSE IF offset > Len(wt.content) THEN 0
        ELSE LET d == RFindWhitespace(wt.content, offset)
             IN  IF d >= 0 THEN offset - d ELSE offset

\* the buffer after insert(substring, line, column), or Panicked
insert(wt, substring, line, column) ==
    LET offset == get_flat(wt, line,
                           Checked(column + (IF line > 0 THEN 1 ELSE 0)), FALSE)
        sanitized == Replace(substring, <<"\t">>, <<" ", " ", " ", " ">>)
    IN  IF offset = PANIC THEN Panicked
        ELSE IF offset >= Len(wt.content)
        THEN [wt EXCEPT !.content = @ \o sanitized]
        ELSE [wt EXCEPT !.content = SubSeq(@, 1, offset) \o sanitized
                                      \o SubSeq(@, offset + 1, Len(@))]

page_up(wt) ==
    IF wt.page >= wt.window_size[2]
    THEN [wt EXCEPT !.page = @ - wt.window_size[2]]
    ELSE [wt EXCEPT !.page = 0]

page_down(wt) ==
    LET p == Checked(wt.page + wt.window_size[2])
    IN  IF p = PANIC THEN Panicked ELSE [wt EXCEPT !.page = p]

\* String::drain(lower..upper) and slicing need both ends on code-point
\* boundaries inside the content
RangePanics(content, lower, upper) ==
    \/ lower > upper
    \/ upper > Len(content)
    \/ ~is_byte_boundary(content, lower)
    \/ ~is_byte_boundary(content, upper)

Drain(content, lower, upper) ==
    SubSeq(content, 1, lower) \o SubSeq(content, upper + 1, Len(content))

RECURSIVE WordBegin(_, _)
\* delete_word's backward scan from `begin`, or PANIC when it indexes past the end
WordBegin(content, begin) ==
    IF begin = 0 THEN 0
    ELSE IF begin > Len(content) THEN PANIC
    ELSE IF ~is_byte_boundary(content, begin) THEN WordBegin(content, begin - 1)
    ELSE IF begin = Len(content) THEN PANIC
    ELSE IF ~is_whitespace(content[begin + 1]) THEN WordBegin(content, begin - 1)
    ELSE begin

\* the byte range begin..end that delete_word drains: <<begin, end>>, <<0, 0>>
\* when it returns early, or <<PANIC, PANIC>> when an index or a subtraction fails
delete_word_range(wt, line, column) ==
    LET end0 == get_flat(wt, line, column, TRUE)
    IN  IF end0 = PANIC THEN <<PANIC, PANIC>>
        ELSE IF end0 = 0 THEN <<0, 0>>
        ELSE IF line >= Len(wt.line_lengths) THEN <<PANIC, PANIC>>
        ELSE LET end == IF column < wt.line_lengths[line + 1] THEN end0 + 1 ELSE end0
                 begin == WordBegin(wt.content, end - 1)
             IN  <<begin, IF begin = PANIC THEN PANIC ELSE end>>

\* [wt |-> the buffer afterwards, removed |-> the deleted text], or Panicked
delete_word(wt, line, column) ==
    LET range == delete_word_range(wt, line, column)
    IN  IF range = <<PANIC, PANIC>> THEN Panicked
        ELSE IF range = <<0, 0>> THEN [wt |-> wt, removed |-> <<>>]
        ELSE IF RangePanics(wt.content, range[1], range[2]) THEN Panicked
        ELSE [wt |-> [wt EXCEPT !.content = Drain(@, range[1], range[2])],
              removed |-> SubSeq(wt.content, range[1] + 1, range[2])]

\* str::trim on a byte string
RECURSIVE TrimStart(_)
TrimStart(s) == IF s # <<>> /\ is_whitespace(Head(s)) THEN TrimStart(Tail(s)) ELSE s
RECURSIVE TrimEnd(_)
TrimEnd(s) ==
    IF s # <<>> /\ is_whitespace(s[Len(s)]) THEN TrimEnd(SubSeq(s, 1, Len(s) - 1)) ELSE s

\* the byte range begin..end that display() slices: <<begin, end>>, or
\* <<PANIC, PANIC>> when an index or an addition fails
display_range(wt) ==
    IF wt.page > Len(wt.line_lengths) THEN <<PANIC, PANIC>>
    ELSE LET begin0 == Checked(SumLengths(wt.line_lengths, wt.page))
             end0 == Checked(SumLengths(wt.line_lengths, Len(wt.line_lengths)))
         IN  IF begin0 = PANIC \/ end0 = PANIC THEN <<PANIC, PANIC>>
             ELSE LET begin == find_prev_byte_boundary(wt.content, begin0)
                  IN  IF begin = PANIC THEN <<PANIC, PANIC>>
                      ELSE <<begin, find_next_byte_boundary(wt.content, end0)>>

\* [text |-> what display() returns], or Panicked
display(wt) ==
    IF Len(wt.line_lengths) = 0 THEN [text |-> <<>>]
    ELSE LET range == display_range(wt)
         IN  IF range = <<PANIC, PANIC>> THEN Panicked
             ELSE IF RangePanics(wt.content, range[1], range[2]) THEN Panicked
             ELSE [text |-> TrimEnd(TrimStart(SubSeq(wt.content, range[1] + 1,
                                                     range[2])))]

clear(wt) == [wt EXCEPT !.content = <<>>, !.line_lengths = <<>>]

----------------------------------------------------------------------------
(* ChatState. Cursors are <<row, column>>; last_message_instant is kept as  *)
(* "recent" (less than 5000 ms ago) or "old".                              *)

Message(type, content) == [message_type |-> type, content |-> content]

RECURSIVE Transcript(_)
\* what chat() queues for the transcript on entry: each content and a separator
Transcript(messages) ==
    IF messages = <<>> THEN <<>>
    ELSE Head(messages).content \o Separator \o Transcript(Tail(messages))

\* the ChatState chat() builds from the loaded conversation
NewChatState(loaded) ==
    [input_wrapped |-> NewWrappedText,
     chat_wrapped |-> NewWrappedText,
     chat_messages |-> loaded,
     pending_changes |-> FALSE,
     input_mode |-> "Normal",
     input_cursor |-> <<0, 0>>,
     chat_cursor |-> <<0, 0>>,
     pending_page_up |-> FALSE,
     pending_chat_update |-> Transcript(loaded),
     pending_deletions |-> 0,
     last_message_instant |-> "old",
     next_window |-> "Chat"]

RECURSIVE RewrapFrom(_, _, _, _, _, _)
\* rewrap's loop over the chars of `content` from byte index i (1-based)
RewrapFrom(content, i, width, column, wrapped_content, lengths) ==
    IF i > Len(content)
    THEN [content |-> wrapped_content,
          line_lengths |-> IF column > 0 THEN Append(lengths, column) ELSE lengths]
    ELSE LET c == content[i]
             n == len_utf8(c)
             break == c = Newline \/ column >= width - 2
             lengths1 == IF break THEN Append(lengths, column) ELSE lengths
             out1 == IF break THEN Append(wrapped_content, Newline) ELSE wrapped_content
             out2 == IF c # Newline THEN out1 \o SubSeq(content, i, i + n - 1) ELSE out1
         IN  RewrapFrom(content, i + n, width, (IF break THEN 0 ELSE column) + n,
                        out2, lengths1)

\* ChatState::rewrap: rewraps the buffer that input_mode selects
rewrap(s, width) ==
    LET old == IF s.input_mode = "Normal" THEN s.chat_wrapped ELSE s.input_wrapped
        r == RewrapFrom(old.content, 1, width, 0, <<>>, <<>>)
        new == [old EXCEPT !.content = r.content, !.line_lengths = r.line_lengths]
    IN  IF s.input_mode = "Normal"
        THEN [s EXCEPT !.chat_wrapped = new]
        ELSE [s EXCEPT !.input_wrapped = new]

\* clamp_cursor without the column kept free in Insert mode
clamp_cursor_whole_line(s) ==
    LET normal == s.input_mode = "Normal"
        cursor == IF normal THEN s.chat_cursor ELSE s.input_cursor
        wrapped == IF normal THEN s.chat_wrapped ELSE s.input_wrapped
        put(c) == IF normal THEN [s EXCEPT !.chat_cursor = c]
                  ELSE [s EXCEPT !.input_cursor = c]
        lines == Len(wrapped.line_lengths)
    IN  IF lines = 0 THEN put(<<0, 0>>)
        ELSE LET rows == Checked(wrapped.window_size[2] - 2)
                 new_row == Min(Min(cursor[1], lines - 1), rows)
                 line_index == Checked(new_row + wrapped.page)
             IN  IF rows = PANIC \/ line_index = PANIC \/ line_index >= lines
                 THEN Panicked
                 ELSE LET len == wrapped.line_lengths[line_index + 1]
                          col_bound ==
                              IF len > 0
                              THEN len
                              ELSE 0
                      IN  put(<<new_row, Min(Max(cursor[2], 0), col_bound)>>)

\* ChatState::clamp_cursor: the state afterwards, or Panicked
clamp_cursor(s) ==
    LET normal == s.input_mode = "Normal"
        cursor == IF normal THEN s.chat_cursor ELSE s.input_cursor
        wrapped == IF normal THEN s.chat_wrapped ELSE s.input_wrapped
        put(c) == IF normal THEN [s EXCEPT !.chat_cursor = c]
                  ELSE [s EXCEPT !.input_cursor = c]
        lines == Len(wrapped.line_lengths)
    IN  IF lines = 0 THEN put(<<0, 0>>)
        ELSE LET rows == Checked(wrapped.window_size[2] - 2)
                 new_row == Min(Min(cursor[1], lines - 1), rows)
                 line_index == Checked(new_row + wrapped.page)
             IN  IF rows = PANIC \/ line_index = PANIC \/ line_index >= lines
                 THEN Panicked
                 ELSE LET len == wrapped.line_lengths[line_index + 1]
                          col_bound ==
                              IF len > 0
                              THEN len - (IF cursor[1] > 0 /\ ~normal THEN 1 ELSE 0)
                              ELSE 0
                      IN  put(<<new_row, Min(Max(cursor[2], 0), col_bound)>>)

\* r when it panicked, else F applied to it
Then(r, F(_)) == IF r = Panicked THEN Panicked ELSE F(r)

\* draw closure, lines 303-309: rewrap after an edit, then take the areas
DrawRewrap(s) ==
    LET s1 == IF s.pending_changes
              THEN [rewrap(s, frame.width) EXCEPT !.pending_changes = FALSE]
              ELSE s
    IN  [s1 EXCEPT !.chat_wrapped.window_size = <<frame.width, frame.chat_height>>,
                   !.input_wrapped.window_size = <<frame.width, frame.input_height>>]

\* the paging step without the reset of pending_page_up
DrawPaging_flag_kept(s) ==
    LET normal == s.input_mode = "Normal"
        cursor == IF normal THEN s.chat_cursor ELSE s.input_cursor
        page_check == IF normal THEN s.chat_wrapped ELSE s.input_wrapped
        put(c, pg) ==
            IF normal
            THEN [s EXCEPT !.chat_cursor = c, !.chat_wrapped.page = pg]
            ELSE [s EXCEPT !.input_cursor = c, !.input_wrapped.page = pg]
        rows == Checked(page_check.window_size[2] - 2)
    IN  IF rows = PANIC THEN Panicked
        ELSE IF cursor[1] >= rows
        THEN LET diff == Checked(cursor[1] - rows + 1)
                 paged == IF diff = PANIC THEN PANIC ELSE Checked(page_check.page + diff)
                 last == Checked(Len(page_check.line_lengths) - rows)
                 row == Checked(page_check.window_size[2] - 3)
             IN  IF paged = PANIC \/ last = PANIC \/ row = PANIC THEN Panicked
                 ELSE put(<<row, cursor[2]>>, Min(paged, last))
        ELSE IF cursor[1] = 0 /\ s.pending_page_up /\ page_check.page > 0
        THEN put(cursor, page_check.page - 1)
        ELSE IF Len(page_check.line_lengths) < rows
        THEN put(cursor, 0)
        ELSE put(cursor, page_check.page)

\* draw closure, lines 311-331: paging of the focused pane
DrawPaging(s) ==
    LET normal == s.input_mode = "Normal"
        cursor == IF normal THEN s.chat_cursor ELSE s.input_cursor
        page_check == IF normal THEN s.chat_wrapped ELSE s.input_wrapped
        put(c, pg) ==
            IF normal
            THEN [s EXCEPT !.chat_cursor = c, !.chat_wrapped.page = pg,
                           !.pending_page_up = FALSE]
            ELSE [s EXCEPT !.input_cursor = c, !.input_wrapped.page = pg,
                           !.pending_page_up = FALSE]
        rows == Checked(page_check.window_size[2] - 2)
    IN  IF rows = PANIC THEN Panicked
        ELSE IF cursor[1] >= rows
        THEN LET diff == Checked(cursor[1] - rows + 1)
                 paged == IF diff = PANIC THEN PANIC ELSE Checked(page_check.page + diff)
                 last == Checked(Len(page_check.line_lengths) - rows)
                 row == Checked(page_check.window_size[2] - 3)
             IN  IF paged = PANIC \/ last = PANIC \/ row = PANIC THEN Panicked
                 ELSE put(<<row, cursor[2]>>, Min(paged, last))
        ELSE IF cursor[1] = 0 /\ s.pending_page_up /\ page_check.page > 0
        THEN put(cursor, page_check.page - 1)
        ELSE IF Len(page_check.line_lengths) < rows
        THEN put(cursor, 0)
        ELSE put(cursor, page_check.page)

\* draw closure, lines 333-340: the pending transcript update
DrawUpdate(s) ==
    IF Len(s.pending_chat_update) > 0
    THEN [rewrap([s EXCEPT !.chat_wrapped.content = @ \o s.pending_chat_update],
                 frame.width)
             EXCEPT !.pending_chat_update = <<>>]
    ELSE s

\* draw closure, lines 345-349: the flat offset of the input cursor, or PANIC
deletion_offset(s) ==
    get_flat(s.input_wrapped,
             Checked(s.input_cursor[1] + s.input_wrapped.page),
             Checked(s.input_cursor[2] + (IF s.input_cursor[1] > 0 THEN 1 ELSE 0)),
             TRUE)

\* the deletion step without the reset of pending_deletions after the drain
DrawDeletions_counter_kept(s) ==
    IF s.pending_deletions = 0 THEN s
    ELSE LET cursor == s.input_cursor
             offset == deletion_offset(s)
             pending == IF offset < s.pending_deletions THEN offset
                        ELSE s.pending_deletions
         IN  IF offset = PANIC THEN Panicked
             ELSE IF pending = 0
             THEN rewrap([s EXCEPT !.pending_deletions = 0], frame.width)
             ELSE LET lower == Max(offset - pending, 0)
                      column == Checked(cursor[2] - 1)
                  IN  IF RangePanics(s.input_wrapped.content, lower, offset)
                      THEN Panicked
                      ELSE IF cursor[1] > 0 /\ cursor[2] = 0
                      THEN rewrap([s EXCEPT
                              !.input_wrapped.content = Drain(@, lower, offset),
                              !.input_cursor = <<cursor[1] - 1, UsizeMax>>,
                              !.pending_deletions = @], frame.width)
                      ELSE IF column = PANIC THEN Panicked
                      ELSE rewrap([s EXCEPT
                              !.input_wrapped.content = Drain(@, lower, offset),
                              !.input_cursor = <<cursor[1], column>>,
                              !.pending_deletions = @], frame.width)

\* draw closure, lines 343-371: the queued backspaces
DrawDeletions(s) ==
    IF s.pending_deletions = 0 THEN s
    ELSE LET cursor == s.input_cursor
             offset == deletion_offset(s)
             pending == IF offset < s.pending_deletions THEN offset
                        ELSE s.pending_deletions
         IN  IF offset = PANIC THEN Panicked
             ELSE IF pending = 0
             THEN rewrap([s EXCEPT !.pending_deletions = 0], frame.width)
             ELSE LET lower == Max(offset - pending, 0)
                      column == Checked(cursor[2] - 1)
                  IN  IF RangePanics(s.input_wrapped.content, lower, offset)
                      THEN Panicked
                      ELSE IF cursor[1] > 0 /\ cursor[2] = 0
                      THEN rewrap([s EXCEPT
                              !.input_wrapped.content = Drain(@, lower, offset),
                              !.input_cursor = <<cursor[1] - 1, UsizeMax>>,
                              !.pending_deletions = 0], frame.width)
                      ELSE IF column = PANIC THEN Panicked
                      ELSE rewrap([s EXCEPT
                              !.input_wrapped.content = Drain(@, lower, offset),
                              !.input_cursor = <<cursor[1], column>>,
                              !.pending_deletions = 0], frame.width)

\* draw closure, lines 382-390: both panes are rendered from display()
DrawRender(s) ==
    IF display(s.chat_wrapped) = Panicked \/ display(s.input_wrapped) = Panicked
    THEN Panicked
    ELSE s

\* the whole closure handed to terminal.draw: the state afterwards, or Panicked
DrawFrame(s) ==
    Then(Then(Then(Then(Then(DrawRewrap(s), DrawPaging), DrawUpdate),
                   DrawDeletions), clamp_cursor), DrawRender)

----------------------------------------------------------------------------
(* JSON values as far as the decoders look at them. *)

NullValue == [null |-> TRUE, str |-> <<>>]
StrValue(t) == [null |-> FALSE, str |-> t]

RECURSIVE JsonEscape(_)
\* serde_json's escaping of a string's bytes
JsonEscape(t) ==
    IF t = <<>> THEN <<>>
    ELSE (CASE Head(t) = DQuote -> <<Backslash, DQuote>>
            [] Head(t) = Backslash -> <<Backslash, Backslash>>
            [] Head(t) = Newline -> <<Backslash, "n">>
            [] OTHER -> <<Head(t)>>) \o JsonEscape(Tail(t))

\* serde_json::Value::to_string for null and for a string
JsonToString(v) ==
    IF v.null THEN <<"n", "u", "l", "l">>
    ELSE <<DQuote>> \o JsonEscape(v.str) \o <<DQuote>>

\* the decoders' unescaping chain followed by delta[1..delta.len() - 1]
UnescapeDelta(v) ==
    LET r1 == Replace(JsonToString(v), <<Backslash, "n">>, <<Newline>>)
        r2 == Replace(r1, <<Backslash, DQuote>>, <<DQuote>>)
        r3 == Replace(r2, <<Backslash, Apostrophe>>, <<Apostrophe>>)
        r4 == Replace(r3, <<Backslash, Backslash>>, <<Backslash>>)
    IN  SubSeq(r4, 2, Len(r4) - 1)

NullText == <<"n", "u", "l", "l">>

----------------------------------------------------------------------------
(* Lines of a server-sent-event response.                                  *)
(*   kind "json"  : `data: <well-formed JSON>`; `type` is the JSON's type  *)
(*                  field, `content` its choices[0].delta.content, `text`  *)
(*                  its delta.text                                         *)
(*   kind "bad"   : `data: <text that is not JSON>`                        *)
(*   kind "done"  : `data: [DONE]`                                         *)
(*   kind "empty" : `data: ` with nothing but whitespace after it          *)
(*   kind "stop"  : `event: message_stop`                                  *)
(*   kind "other" : any other line (blank line, other `event:` line)       *)

JsonLine(ty, c, t) == [kind |-> "json", type |-> ty, content |-> c, text |-> t]
PlainLine(k) == [kind |-> k, type |-> "", content |-> NullValue, text |-> NullValue]

\* the texts that the provider may stream
EventValues ==
    {NullValue} \cup {StrValue(t) : t \in StringsUpTo({Backslash, "n"}, MaxTextLen)}

\* what an OpenAI- or Groq-shaped server sends
OpenAILines == {JsonLine("", c, NullValue) : c \in EventValues}
\* what an Anthropic-shaped server sends
AnthropicLines ==
    {JsonLine(ty, NullValue, t) : ty \in {"content_block_delta", "ping"}, t \in EventValues}

IsDataLine(line) == line.kind \in {"json", "bad", "done", "empty"}

----------------------------------------------------------------------------
(* One iteration of a decoder's loop on the line in event_buffer.          *)
(* The result says how the loop goes on ("continue" | "break" | "error")   *)
(* and which deltas it sends (none or one).                                *)

Outcome(next, deltas) == [next |-> next, send |-> deltas]

process_openai_stream(line) ==
    IF ~IsDataLine(line) THEN Outcome("continue", <<>>)
    ELSE IF line.kind \in {"empty", "done"} THEN Outcome("break", <<>>)
    ELSE LET response_json == IF line.kind = "bad" THEN NullValue ELSE line.content
             delta == UnescapeDelta(response_json)
         IN  IF delta # NullText THEN Outcome("continue", <<delta>>)
             ELSE Outcome("continue", <<>>)

\* process_anthropic_stream without the message_stop test
process_anthropic_stream_no_stop(line) ==
    IF ~IsDataLine(line) THEN Outcome("continue", <<>>)
    ELSE IF line.kind \in {"empty", "done"} THEN Outcome("break", <<>>)
    ELSE IF line.kind = "bad" THEN Outcome("error", <<>>)
    ELSE LET delta == IF line.type = "content_block_delta"
                      THEN UnescapeDelta(line.text)
                      ELSE NullText
         IN  IF delta # NullText THEN Outcome("continue", <<delta>>)
             ELSE Outcome("continue", <<>>)

process_anthropic_stream(line) ==
    IF line.kind = "stop" THEN Outcome("break", <<>>)
    ELSE IF ~IsDataLine(line) THEN Outcome("continue", <<>>)
    ELSE IF line.kind \in {"empty", "done"} THEN Outcome("break", <<>>)
    ELSE IF line.kind = "bad" THEN Outcome("error", <<>>)
    ELSE LET delta == IF line.type = "content_block_delta"
                      THEN UnescapeDelta(line.text)
                      ELSE NullText
         IN  IF delta # NullText THEN Outcome("continue", <<delta>>)
             ELSE Outcome("continue", <<>>)

----------------------------------------------------------------------------
(* Key events. `mod` is "none", "ctrl" or "shift"; `clip` is the clipboard *)
(* text a paste would read.                                                *)

KeyEvent(code, c, mod) == [code |-> code, c |-> c, mod |-> mod, clip |-> <<>>]
Paste(clip) == [code |-> "Char", c |-> "v", mod |-> "ctrl", clip |-> clip]

IsChar(k, c) == k.code = "Char" /\ k.c = c

\* WindowView::next with Exit after Directory
WindowNext_exit_after_directory(w) ==
    CASE w = "Chat" -> "Directory"
      [] w = "Directory" -> "Exit"
      [] w = "Load" -> "Exit"
      [] OTHER -> "Exit"

\* WindowView::next
WindowNext(w) ==
    CASE w = "Chat" -> "Directory"
      [] w = "Directory" -> "Chat"
      [] w = "Load" -> "Exit"
      [] OTHER -> "Exit"

\* the Normal-mode keys that break out of chat()'s loop
LeavesChat(k) == k.code = "Tab" \/ IsChar(k, "q") \/ IsChar(k, "l")

\* Submits without the test of the input's length
Submits_empty_input(s, k) == s.input_mode = "Normal" /\ k.code = "Enter"

\* Enter in Normal mode pushes the two messages and spawns the worker
Submits(s, k) ==
    s.input_mode = "Normal" /\ k.code = "Enter" /\ Len(s.input_wrapped.content) > 0

\* the switch of mode also puts the input cursor at the origin
set_input_mode_home(s, mode) ==
    [s EXCEPT !.input_mode = mode, !.input_cursor = <<0, 0>>]

\* state.input_mode = ChatInputMode::Insert / ChatInputMode::Normal
set_input_mode(s, mode) == [s EXCEPT !.input_mode = mode]

\* the Normal-mode match of chat(), the state afterwards, or Panicked
normal_mode(s, k) ==
    CASE k.code = "Tab" -> [s EXCEPT !.next_window = WindowNext(@)]
      [] IsChar(k, "q") -> [s EXCEPT !.next_window = "Exit"]
      [] IsChar(k, "i") \/ IsChar(k, "a") -> set_input_mode(s, "Insert")
      [] IsChar(k, "l") -> [s EXCEPT !.next_window = "Load"]
      [] k.code = "Enter" ->
            IF Len(s.input_wrapped.content) > 0
            THEN [s EXCEPT
                    !.chat_messages =
                        @ \o <<Message("User", s.input_wrapped.content),
                               Message("Assistant", <<>>)>>,
                    !.pending_chat_update =
                        (IF Len(s.chat_messages) + 1 > 1 THEN Separator ELSE <<>>)
                            \o s.input_wrapped.content \o Separator,
                    !.last_message_instant = "recent",
                    !.input_wrapped = clear(@)]
            ELSE [s EXCEPT !.input_wrapped = clear(@)]
      [] k.code = "Left" ->
            IF s.chat_cursor[2] > 0 THEN [s EXCEPT !.chat_cursor[2] = @ - 1] ELSE s
      [] k.code = "Right" ->
            LET col == Checked(s.chat_cursor[2] + 1)
            IN  IF col = PANIC THEN Panicked ELSE [s EXCEPT !.chat_cursor[2] = col]
      [] k.code = "Up" ->
            IF k.mod = "shift" THEN [s EXCEPT !.chat_wrapped = page_up(@)]
            ELSE IF s.chat_cursor[1] > 0 THEN [s EXCEPT !.chat_cursor[1] = @ - 1]
            ELSE [s EXCEPT !.pending_page_up = TRUE]
      [] k.code = "Down" ->
            IF k.mod = "shift"
            THEN LET paged == page_down(s.chat_wrapped)
                 IN  IF paged = Panicked THEN Panicked
                     ELSE [s EXCEPT !.chat_wrapped = paged,
                                    !.chat_cursor[1] = paged.window_size[2]]
            ELSE LET row == Checked(s.chat_cursor[1] + 1)
                 IN  IF row = PANIC THEN Panicked ELSE [s EXCEPT !.chat_cursor[1] = row]
      [] OTHER -> s

\* number of "\n" in a text
RECURSIVE CountNewlines(_)
CountNewlines(t) ==
    IF t = <<>> THEN 0
    ELSE (IF Head(t) = Newline THEN 1 ELSE 0) + CountNewlines(Tail(t))

\* the Insert-mode match of chat(), the state afterwards, or Panicked
insert_mode(s, k) ==
    LET cursor == s.input_cursor
        wt == s.input_wrapped
        line == Checked(cursor[1] + wt.page)
    IN
    CASE k.code = "Esc" -> set_input_mode(s, "Normal")
      [] k.code = "Char" /\ k.mod = "ctrl" /\ k.c = "w" ->
            LET d == delete_word(wt, cursor[1], cursor[2])
            IN  IF d = Panicked THEN Panicked
                ELSE [s EXCEPT !.input_wrapped = d.wt,
                               !.input_cursor[2] =
                                   IF CountNewlines(d.removed) > 0
                                   THEN wt.window_size[1] ELSE @,
                               !.pending_changes = TRUE]
      [] k.code = "Char" /\ k.mod = "ctrl" /\ k.c = "v" ->
            LET pasted == insert(wt, k.clip, line, cursor[2])
                row == Checked(cursor[1] + CountNewlines(k.clip))
            IN  IF pasted = Panicked \/ row = PANIC THEN Panicked
                ELSE [s EXCEPT !.input_wrapped = pasted,
                               !.input_cursor = <<row, wt.window_size[1]>>,
                               !.pending_changes = TRUE]
      [] k.code = "Char" /\ k.mod = "ctrl" /\ k.c \notin {"w", "v"} ->
            [s EXCEPT !.pending_changes = TRUE]
      [] k.code = "Char" /\ k.mod # "ctrl" ->
            LET typed == insert(wt, <<k.c>>, line, cursor[2])
                limit == Checked(wt.window_size[1] - 3)
            IN  IF typed = Panicked \/ limit = PANIC THEN Panicked
                ELSE IF cursor[2] >= limit
                THEN LET broken == insert(typed, <<Newline>>, line, cursor[2])
                         row == Checked(cursor[1] + 1)
                     IN  IF broken = Panicked \/ row = PANIC THEN Panicked
                         ELSE [s EXCEPT !.input_wrapped = broken,
                                        !.input_cursor = <<row, 1>>,
                                        !.pending_changes = TRUE]
                ELSE LET col == Checked(cursor[2] + 1)
                     IN  IF col = PANIC THEN Panicked
                         ELSE [s EXCEPT !.input_wrapped = typed,
                                        !.input_cursor[2] = col,
                                        !.pending_changes = TRUE]
      [] k.code = "Enter" ->
            LET broken == insert(wt, <<Newline>>, line, cursor[2])
                row == Checked(cursor[1] + 1)
            IN  IF broken = Panicked \/ row = PANIC THEN Panicked
                ELSE [s EXCEPT !.input_wrapped = broken,
                               !.input_cursor = <<row, 0>>,
                               !.pending_changes = TRUE]
      [] k.code = "Backspace" ->
            IF Len(wt.content) > 0
            THEN [s EXCEPT !.pending_deletions = @ + 1]
            ELSE s
      [] k.code = "Left" ->
            LET d == IF k.mod = "ctrl"
                     THEN prev_whitespace_distance(wt, cursor[1], cursor[2])
                     ELSE 0
                col1 == cursor[2] - Min(cursor[2], d)
                c2 == IF k.mod = "ctrl" /\ cursor[1] > 0 /\ col1 = 0
                      THEN <<cursor[1] - 1, UsizeMax>>
                      ELSE <<cursor[1], col1>>
            IN  IF d = PANIC THEN Panicked
                ELSE [s EXCEPT !.input_cursor =
                                   IF c2[2] > 0 THEN <<c2[1], c2[2] - 1>> ELSE c2]
      [] k.code = "Right" ->
            LET d == IF k.mod = "ctrl"
                     THEN next_whitespace_distance(wt, cursor[1], cursor[2])
                     ELSE 0
                col1 == IF d = PANIC THEN PANIC ELSE Checked(cursor[2] + d)
                wraps == /\ k.mod = "ctrl"
                         /\ line # PANIC
                         /\ line < Len(wt.line_lengths)
                         /\ col1 >= wt.line_lengths[line + 1]
                row == IF wraps THEN Checked(cursor[1] + 1) ELSE cursor[1]
                col2 == Checked((IF wraps THEN 1 ELSE col1) + 1)
            IN  IF col1 = PANIC \/ (k.mod = "ctrl" /\ line = PANIC)
                   \/ row = PANIC \/ col2 = PANIC
                THEN Panicked
                ELSE [s EXCEPT !.input_cursor = <<row, col2>>]
      [] k.code = "Up" ->
            IF cursor[1] > 0 THEN [s EXCEPT !.input_cursor[1] = @ - 1]
            ELSE [s EXCEPT !.pending_page_up = TRUE]
      [] k.code = "Down" ->
            LET row == Checked(cursor[1] + 1)
            IN  IF row = PANIC THEN Panicked ELSE [s EXCEPT !.input_cursor[1] = row]
      [] OTHER -> s

----------------------------------------------------------------------------
(* Worker threads. pc: "idle" (not spawned) | "connect" | "read" | "done"  *)
(* | "panicked".  `attached` says whether the receiver of the worker's     *)
(* sender still exists; `slot` is the index of the Assistant placeholder   *)
(* its submission pushed, `nread` counts the lines read and `forwarded`    *)
(* is the concatenation of the deltas passed to send_delta (bookkeeping).  *)

Workers == 1..MaxWorkers

\* event_buffer after event_buffer.clear(), and before the first read_line
NoLine == PlainLine("")

IdleWorker ==
    [pc |-> "idle", attached |-> FALSE, messages |-> <<>>, slot |-> 0,
     full_message |-> <<>>, event_buffer |-> NoLine, nread |-> 0,
     forwarded |-> <<>>]

\* the thread is given the message list without the placeholder just pushed
SpawnedWorker_without_placeholder(messages) ==
    [IdleWorker EXCEPT !.pc = "connect", !.attached = TRUE,
                       !.messages = SubSeq(messages, 1, Len(messages) - 1),
                       !.slot = Len(messages)]

\* the thread std::thread::spawn starts with the clones the closure moves in
SpawnedWorker(messages) ==
    [IdleWorker EXCEPT !.pc = "connect", !.attached = TRUE,
                       !.messages = messages, !.slot = Len(messages)]

\* a thread that has ended: its Sender clone and its locals are dropped; slot
\* stays as the record of which submission spawned it, event_buffer as the
\* line the decoder's loop ended on, forwarded as the record of what it sent
EndedWorker(w, pc, line) ==
    [IdleWorker EXCEPT !.pc = pc, !.slot = workers[w].slot, !.event_buffer = line,
                       !.forwarded = workers[w].forwarded]

\* send_delta that keeps the delta for full_message only and sends nothing
send_delta_unsent(w, queue, delta) == queue

\* send_delta whose delta arrives although the receiver was dropped
send_delta_detached(w, queue, delta) == Append(queue, [text |-> delta, from |-> w])

\* send_delta: the queue afterwards; a send to a dropped receiver is only logged
send_delta(w, queue, delta) ==
    IF workers[w].attached THEN Append(queue, [text |-> delta, from |-> w]) ELSE queue

\* one decoder iteration for the provider
process_stream(provider, line) ==
    IF provider = "anthropic" THEN process_anthropic_stream(line)
    ELSE process_openai_stream(line)

\* prompt_stream up to the decoder's loop: connect, TLS handshake, write, flush,
\* and the decoder's header loop
WorkerConnect(w) ==
    /\ proc = "running"
    /\ workers[w].pc = "connect"
    /\ api \in {"anthropic", "openai", "groq"}
    /\ workers' = [workers EXCEPT
            ![w].pc = "read",
            ![w].full_message = IF api = "anthropic" THEN <<"H">> ELSE <<>>]
    /\ UNCHANGED <<proc, api, chan, overflow_checks, frame, window, view_pc,
                   state, conversation, conversation_path, disk>>
    /\ UNCHANGED <<args, result>>

\* an unsupported provider, or a failed connect, handshake or write: the thread panics
WorkerConnectFail(w) ==
    /\ proc = "running"
    /\ workers[w].pc = "connect"
    /\ workers' = [workers EXCEPT ![w] = EndedWorker(w, "panicked", NoLine)]
    /\ UNCHANGED <<proc, api, chan, overflow_checks, frame, window, view_pc,
                   state, conversation, conversation_path, disk>>
    /\ UNCHANGED <<args, result>>

\* one iteration of the decoder's loop: read_line returns `line`, the body handles
\* it; and what the spawned closure does with prompt_stream's result when the loop
\* ends
WorkerLine(w, line) ==
    /\ proc = "running"
    /\ workers[w].pc = "read"
    /\ workers[w].nread < MaxLines
    /\ LET r == process_stream(api, line)
       IN  /\ chan' = IF r.send # <<>> THEN send_delta(w, chan, r.send[1]) ELSE chan
           /\ workers' = [workers EXCEPT
                  ![w] = IF r.next = "continue"
                         THEN [@ EXCEPT !.nread = @ + 1,
                                        !.full_message = @ \o Concat(r.send),
                                        !.forwarded = @ \o Concat(r.send)]
                         ELSE EndedWorker(w, "done", line)]
           /\ proc' = IF r.next = "error" THEN "exited" ELSE proc
    /\ UNCHANGED <<api, overflow_checks, frame, window, view_pc,
                   state, conversation, conversation_path, disk>>
    /\ UNCHANGED <<args, result>>

\* read_line returns 0 at the end of the response: the loop ends, the thread returns
WorkerEndOfStream(w) ==
    /\ proc = "running"
    /\ workers[w].pc = "read"
    /\ workers' = [workers EXCEPT ![w] = EndedWorker(w, "done", NoLine)]
    /\ UNCHANGED <<proc, api, chan, overflow_checks, frame, window, view_pc,
                   state, conversation, conversation_path, disk>>
    /\ UNCHANGED <<args, result>>

\* read_line fails: unwrap() panics the thread
WorkerReadFail(w) ==
    /\ proc = "running"
    /\ workers[w].pc = "read"
    /\ workers' = [workers EXCEPT ![w] = EndedWorker(w, "panicked", NoLine)]
    /\ UNCHANGED <<proc, api, chan, overflow_checks, frame, window, view_pc,
                   state, conversation, conversation_path, disk>>
    /\ UNCHANGED <<args, result>>

----------------------------------------------------------------------------
(* The chat view. view_pc: "enter" (display_manager is about to call the   *)
(* view of `window`) | "tick" (at the top of the loop) | "poll" (in        *)
(* event::poll) | "read" (in event::read without a poll before it).        *)

Paths == {"c1"}

InChat(pc) == proc = "running" /\ window = "Chat" /\ view_pc = pc

\* chat(), lines 254-292: load the conversation, build the state and the channel
ChatEnter ==
    /\ InChat("enter")
    /\ conversation' = disk[conversation_path]
    /\ state' = NewChatState(disk[conversation_path])
    /\ chan' = <<>>
    /\ view_pc' = "tick"
    /\ UNCHANGED <<proc, api, workers, overflow_checks, frame, window,
                   conversation_path, disk>>
    /\ UNCHANGED <<args, result>>

\* a delta goes to the first message of the list
try_recv_first(s, queue) ==
    IF queue = <<>> THEN s
    ELSE LET message == Head(queue).text
             last == Len(s.chat_messages)
         IN  IF last = 0 THEN Panicked
             ELSE [s EXCEPT
                     !.chat_messages[1].content = @ \o message,
                     !.pending_chat_update = message,
                     !.chat_cursor[1] = Len(s.chat_wrapped.line_lengths),
                     !.last_message_instant = "recent"]

\* rx.try_recv() after the frame: the state afterwards
try_recv(s, queue) ==
    IF queue = <<>> THEN s
    ELSE LET message == Head(queue).text
             last == Len(s.chat_messages)
         IN  IF last = 0 THEN Panicked
             ELSE [s EXCEPT
                     !.chat_messages[last].content = @ \o message,
                     !.pending_chat_update = message,
                     !.chat_cursor[1] = Len(s.chat_wrapped.line_lengths),
                     !.last_message_instant = "recent"]

\* one pass of chat()'s loop up to the wait for an event: terminal.draw(...),
\* rx.try_recv(), and the choice between event::poll(5 ms) and event::read()
Tick ==
    /\ InChat("tick")
    /\ LET s == Then(DrawFrame(state), LAMBDA d : try_recv(d, chan))
       IN  IF s = Panicked
           THEN proc' = "panicked" /\ UNCHANGED <<state, view_pc, chan>>
           ELSE /\ state' = s
                /\ chan' = IF chan = <<>> THEN chan ELSE Tail(chan)
                /\ view_pc' = IF s.last_message_instant = "recent"
                              THEN "poll" ELSE "read"
                /\ UNCHANGED proc
    /\ UNCHANGED <<api, workers, overflow_checks, frame, window,
                   conversation, conversation_path, disk>>
    /\ UNCHANGED <<args, result>>

\* event::poll(5 ms) returns false
PollTimeout ==
    /\ InChat("poll")
    /\ view_pc' = "tick"
    /\ UNCHANGED <<proc, api, workers, chan, overflow_checks, frame, window,
                   state, conversation, conversation_path, disk>>
    /\ UNCHANGED <<args, result>>

\* 5000 ms have gone by without a delta or a submission when the loop comes to
\* compare last_message_instant.elapsed() (the only place that reads the instant)
SilenceElapses ==
    /\ InChat("tick")
    /\ state.last_message_instant = "recent"
    /\ state' = [state EXCEPT !.last_message_instant = "old"]
    /\ UNCHANGED <<proc, api, workers, chan, overflow_checks, frame, window,
                   view_pc, conversation, conversation_path, disk>>
    /\ UNCHANGED <<args, result>>

\* a key press read in Normal mode that stays in the view
NormalKey(k) ==
    /\ proc = "running" /\ window = "Chat" /\ view_pc \in {"poll", "read"}
    /\ state.input_mode = "Normal"
    /\ ~LeavesChat(k)
    /\ LET s == normal_mode(state, k)
       IN  IF s = Panicked
           THEN proc' = "panicked" /\ UNCHANGED <<state, view_pc, workers>>
           ELSE /\ state' = s
                /\ view_pc' = "tick"
                /\ UNCHANGED proc
                /\ IF Submits(state, k)
                   THEN /\ \E w \in Workers : workers[w].pc = "idle"
                        /\ LET idle == {w \in Workers : workers[w].pc = "idle"}
                               first == CHOOSE w \in idle : \A v \in idle : w <= v
                           IN  workers' = [workers EXCEPT
                                   ![first] = SpawnedWorker(s.chat_messages)]
                   ELSE UNCHANGED workers
    /\ UNCHANGED <<api, chan, overflow_checks, frame, window,
                   conversation, conversation_path, disk>>
    /\ UNCHANGED <<args, result>>

\* a key press read in Insert mode
InsertKey(k) ==
    /\ proc = "running" /\ window = "Chat" /\ view_pc \in {"poll", "read"}
    /\ state.input_mode = "Insert"
    /\ LET s == insert_mode(state, k)
       IN  IF s = Panicked
           THEN proc' = "panicked" /\ UNCHANGED <<state, view_pc>>
           ELSE state' = s /\ view_pc' = "tick" /\ UNCHANGED proc
    /\ UNCHANGED <<api, workers, chan, overflow_checks, frame, window,
                   conversation, conversation_path, disk>>
    /\ UNCHANGED <<args, result>>

\* the file is written without the messages whose content is empty
write_conversation_nonempty(files, path, messages) ==
    [files EXCEPT ![path] = SelectSeq(messages, LAMBDA m : m.content # <<>>)]

\* serde_json::to_string(&state.chat_messages) written to conversation_path
write_conversation(files, path, messages) == [files EXCEPT ![path] = messages]

\* Tab, q or l in Normal mode: break, save the conversation, return next_window;
\* the receiver is dropped with the view
LeaveChat(k) ==
    /\ proc = "running" /\ window = "Chat" /\ view_pc \in {"poll", "read"}
    /\ state.input_mode = "Normal"
    /\ LeavesChat(k)
    /\ state' = normal_mode(state, k)
    /\ disk' = write_conversation(disk, conversation_path, state.chat_messages)
    /\ window' = state'.next_window
    /\ view_pc' = "enter"
    /\ chan' = <<>>
    /\ workers' = [w \in Workers |-> [workers[w] EXCEPT !.attached = FALSE]]
    /\ UNCHANGED <<proc, api, overflow_checks, frame, conversation, conversation_path>>
    /\ UNCHANGED <<args, result>>

\* an event that is no key press (a resize, a key release): nothing changes
OtherEvent ==
    /\ proc = "running" /\ window = "Chat" /\ view_pc \in {"poll", "read"}
    /\ view_pc' = "tick"
    /\ UNCHANGED <<proc, api, workers, chan, overflow_checks, frame, window,
                   state, conversation, conversation_path, disk>>
    /\ UNCHANGED <<args, result>>

----------------------------------------------------------------------------
(* display_manager and the two other views, as far as they pass control.   *)

\* directory(): Tab returns next_window.next() = Chat, q returns Exit
DirectoryView(next) ==
    /\ proc = "running" /\ window = "Directory" /\ view_pc = "enter"
    /\ next \in {"Chat", "Exit"}
    /\ window' = next
    /\ UNCHANGED <<proc, api, workers, chan, overflow_checks, frame, view_pc,
                   state, conversation, conversation_path, disk>>
    /\ UNCHANGED <<args, result>>

\* conversation_search(): Tab returns Chat, q returns Exit, Enter returns Chat
\* with the chosen conversation
LoadView(next, chosen) ==
    /\ proc = "running" /\ window = "Load" /\ view_pc = "enter"
    /\ next \in {"Chat", "Exit"}
    /\ window' = next
    /\ conversation_path' = chosen
    /\ UNCHANGED <<proc, api, workers, chan, overflow_checks, frame, view_pc,
                   state, conversation, disk>>
    /\ UNCHANGED <<args, result>>

\* display_manager's loop ends on Exit; ratatui::restore(); Ok(())
ManagerExit ==
    /\ proc = "running" /\ window = "Exit" /\ view_pc = "enter"
    /\ proc' = "returned"
    /\ UNCHANGED <<api, workers, chan, overflow_checks, frame, window, view_pc,
                   state, conversation, conversation_path, disk>>
    /\ UNCHANGED <<args, result>>

----------------------------------------------------------------------------
(* Functions called on their own: `args` holds the arguments, `result` the *)
(* value returned, an error, or Panicked.                                  *)

NoResult == [pending |-> TRUE]
Returned(v) == [value |-> v]
Failed == [error |-> TRUE]

CR == "\r"
CRLF == <<CR, Newline>>

\* str::find / the position of the first `pat` in s at or after `from` (0: none)
FindSub(s, pat, from) ==
    LET found == {i \in from..(Len(s) - Len(pat) + 1) :
                     SubSeq(s, i, i + Len(pat) - 1) = pat}
    IN  IF found = {} THEN 0 ELSE CHOOSE i \in found : \A j \in found : i <= j

\* well-formed UTF-8 over the bytes of the model: lead bytes followed by their
\* continuation bytes
RECURSIVE ValidUtf8(_)
ValidUtf8(s) ==
    IF s = <<>> THEN TRUE
    ELSE LET n == len_utf8(Head(s))
         IN  /\ ~IsContinuation(Head(s))
             /\ Len(s) >= n
             /\ \A i \in 2..n : IsContinuation(s[i])
             /\ ValidUtf8(SubSeq(s, n + 1, Len(s)))

HexDigits == <<"0", "1", "2", "3", "4", "5", "6", "7", "8", "9",
               "a", "b", "c", "d", "e", "f">>
UpperHexDigits == <<"0", "1", "2", "3", "4", "5", "6", "7", "8", "9",
                    "A", "B", "C", "D", "E", "F">>

\* usize::from_str_radix(text, 16): the value, or PANIC for Err
RECURSIVE from_str_radix(_, _)
from_str_radix(text, acc) ==
    IF text = <<>> THEN acc
    ELSE LET digit == Head(text)
             \* the value of one hexadecimal digit, PANIC for what is no digit
             d == IF \E i \in 1..16 : HexDigits[i] = digit \/ UpperHexDigits[i] = digit
                  THEN (CHOOSE i \in 1..16 :
                            HexDigits[i] = digit \/ UpperHexDigits[i] = digit) - 1
                  ELSE PANIC
         IN  IF d = PANIC \/ acc * 16 + d > UsizeMax THEN PANIC
             ELSE from_str_radix(Tail(text), acc * 16 + d)

\* the size a chunk-size line stands for: trim, then from_str_radix
ChunkSize(line) ==
    LET text == TrimEnd(TrimStart(line))
        digits == IF text # <<>> /\ Head(text) = "+" THEN Tail(text) ELSE text
    IN  IF digits = <<>> THEN PANIC ELSE from_str_radix(digits, 0)

\* BufRead::read_line from position pos: the position after the line
ReadLine(stream, pos) ==
    LET nl == FindSub(stream, <<Newline>>, pos)
    IN  IF nl = 0 THEN Len(stream) + 1 ELSE nl + 1

\* network::prompt's chunked loop on the bytes after the headers
RECURSIVE prompt_chunked(_, _, _)
prompt_chunked(stream, pos, buffer) ==
    LET after_size == ReadLine(stream, pos)
        chunk_size == ChunkSize(SubSeq(stream, pos, after_size - 1))
        after_chunk == after_size + chunk_size
    IN  IF chunk_size = PANIC THEN Failed
        ELSE IF chunk_size = 0
        THEN (IF ValidUtf8(buffer) THEN Returned(buffer) ELSE Panicked)
        ELSE IF after_chunk - 1 > Len(stream) THEN Failed
        ELSE prompt_chunked(stream, ReadLine(stream, after_chunk),
                            buffer \o SubSeq(stream, after_size, after_chunk - 1))

\* &s[from..to] on a str (0-based, to excluded): is the slice a panic
SlicePanics(s, from, to) ==
    \/ from > to
    \/ to > Len(s)
    \/ ~is_byte_boundary(s, from)
    \/ ~is_byte_boundary(s, to)

\* openai::prompt's chunked loop on what is left of response_body
RECURSIVE openai_chunked(_, _)
openai_chunked(remaining, decoded_body) ==
    LET index == FindSub(remaining, CRLF, 1)
        size_str == SubSeq(remaining, 1, index - 1)
        rest == SubSeq(remaining, index, Len(remaining))
        parsed == ChunkSize(size_str)
        size == IF parsed = PANIC THEN 0 ELSE parsed
    IN  IF remaining = <<>> \/ index = 0 \/ size = 0 THEN Returned(decoded_body)
        ELSE IF SlicePanics(rest, 2, 2 + size) \/ SlicePanics(rest, 2 + size + 2, Len(rest))
        THEN Panicked
        ELSE openai_chunked(SubSeq(rest, 2 + size + 2 + 1, Len(rest)),
                            decoded_body \o SubSeq(rest, 3, 2 + size))

\* openai::prompt from read_to_string to decoded_body, on the bytes after the
\* headers' empty line: parts[1] of response.split("\r\n\r\n")
openai_prompt_chunked(stream) ==
    LET cut == FindSub(stream, CRLF \o CRLF, 1)
        response_body == IF cut = 0 THEN stream ELSE SubSeq(stream, 1, cut - 1)
    IN  IF ~ValidUtf8(stream) THEN Panicked
        ELSE openai_chunked(response_body, <<>>)

\* network::prompt's clean-up of the content it returns: no replacement of
\* backslash-n, and the quotes go only when both are there
prompt_unescape(v) ==
    LET r1 == Replace(JsonToString(v), <<Backslash, DQuote>>, <<DQuote>>)
        r2 == Replace(r1, <<Backslash, Apostrophe>>, <<Apostrophe>>)
        r3 == Replace(r2, <<Backslash, Backslash>>, <<Backslash>>)
    IN  IF r3 # <<>> /\ Head(r3) = DQuote /\ r3[Len(r3)] = DQuote
        THEN (IF Len(r3) = 1 THEN Panicked
              ELSE Returned(SubSeq(r3, 2, Len(r3) - 1)))
        ELSE Returned(r3)

----------------------------------------------------------------------------
(* Specifications. *)

\* the keys pressed in the chat view
TypedChars == {"a"}
NormalKeys ==
    {KeyEvent("Tab", "", "none"), KeyEvent("Enter", "", "none")}
        \cup {KeyEvent("Char", c, "none") : c \in {"q", "i", "l"}}

\* the lines the provider sends to the workers of the chat view
ChatLines ==
    IF api = "anthropic"
    THEN {JsonLine("content_block_delta", NullValue, StrValue(<<"n">>)),
          PlainLine("bad"), PlainLine("stop")}
    ELSE {JsonLine("", StrValue(<<"n">>), NullValue), PlainLine("done")}

\* longest input typed before a submission
MaxInput == 1

Frame == [width |-> 16, chat_height |-> 6, input_height |-> 3]

\* the program's variables
program == <<proc, api, workers, chan, overflow_checks, frame, window, view_pc,
             state, conversation, conversation_path, disk>>

\* display_manager called on the chat view with an empty conversation file
ProgramInit ==
    /\ proc = "running"
    /\ api \in {"openai", "anthropic"}
    /\ workers = [w \in Workers |-> IdleWorker]
    /\ chan = <<>>
    /\ overflow_checks = TRUE
    /\ frame = Frame
    /\ window = "Chat"
    /\ view_pc = "enter"
    /\ state = NewChatState(<<>>)
    /\ conversation = <<>>
    /\ conversation_path = "c1"
    /\ disk = [p \in Paths |-> <<>>]

Init ==
    /\ ProgramInit
    /\ args = <<>>
    /\ result = NoResult

Next ==
    \/ ChatEnter
    \/ Tick
    \/ PollTimeout
    \/ SilenceElapses
    \/ \E k \in NormalKeys : NormalKey(k)
    \/ \E k \in {KeyEvent("Esc", "", "none")}
                  \cup {KeyEvent("Char", c, "none") : c \in TypedChars} :
          /\ (k.code \in {"Char", "Enter"} => Len(state.input_wrapped.content) < MaxInput)
          /\ InsertKey(k)
    \/ \E k \in NormalKeys : LeaveChat(k)
    \/ OtherEvent
    \/ \E next \in {"Chat", "Exit"} : DirectoryView(next)
    \/ \E next \in {"Chat", "Exit"}, chosen \in Paths : LoadView(next, chosen)
    \/ ManagerExit
    \/ \E w \in Workers : WorkerConnect(w)
    \/ \E w \in Workers : WorkerConnectFail(w)
    \/ \E w \in Workers, line \in ChatLines : WorkerLine(w, line)
    \/ \E w \in Workers : WorkerEndOfStream(w)
    \/ \E w \in Workers : WorkerReadFail(w)

Spec == Init /\ [][Next]_vars

----------------------------------------------------------------------------
(* The decoders on their own: one request in flight, any line on the wire. *)

\* chat()'s state when the first submission has just spawned its worker: what
\* the keys i, a, Esc, Enter, each after a frame, make of the initial state
SubmittedState ==
    [NewChatState(<<>>) EXCEPT
        !.input_wrapped.window_size = <<Frame.width, Frame.input_height>>,
        !.chat_wrapped.window_size = <<Frame.width, Frame.chat_height>>,
        !.chat_messages = <<Message("User", <<"a">>), Message("Assistant", <<>>)>>,
        !.input_cursor = <<0, 1>>,
        !.pending_chat_update = <<"a">> \o Separator,
        !.last_message_instant = "recent"]

InitStream ==
    /\ proc = "running"
    /\ api \in {"openai", "groq", "anthropic"}
    /\ chan = <<>>
    /\ overflow_checks = TRUE
    /\ frame = Frame
    /\ window = "Chat"
    /\ view_pc = "tick"
    /\ state = SubmittedState
    /\ workers = [w \in Workers |->
                    IF w = 1 THEN SpawnedWorker(state.chat_messages) ELSE IdleWorker]
    /\ conversation = <<>>
    /\ conversation_path = "c1"
    /\ disk = [p \in Paths |-> <<>>]
    /\ args = <<>>
    /\ result = NoResult

SpecStream ==
    InitStream /\
    [][\/ \E w \in Workers : WorkerConnect(w)
       \/ \E w \in Workers : WorkerConnectFail(w)
       \/ \E w \in Workers,
                line \in OpenAILines \cup AnthropicLines
                          \cup {PlainLine(k) : k \in {"bad", "done", "empty", "stop", "other"}} :
             WorkerLine(w, line)
       \/ \E w \in Workers : WorkerEndOfStream(w)
       \/ \E w \in Workers : WorkerReadFail(w)
      ]_vars

----------------------------------------------------------------------------
(* The chat view's key handling on its own: every key chat() matches, the  *)
(* workers it spawns never scheduled.                                      *)

AllKeys ==
    {KeyEvent(code, "", mod) :
        code \in {"Enter", "Esc", "Backspace", "Left", "Right", "Up", "Down"},
        mod \in {"none", "ctrl", "shift"}}
      \cup {KeyEvent("Char", c, "none") : c \in {"i", "a", "x", " "}}
      \cup {KeyEvent("Char", c, "ctrl") : c \in {"w", "x"}}
      \cup {Paste(<<"a", Newline>>)}

\* submissions made in a run of SpecKeys
MaxKeySubmissions == 2
\* furthest row, column or page offset from which Right and Down still act
MaxCursor == 2

\* the Insert-mode keys that add text to the input
InsertsText(k) ==
    k.code = "Enter" \/ (k.code = "Char" /\ (k.mod # "ctrl" \/ k.c = "v"))

\* the key moves no cursor and no page beyond MaxCursor
WithinCursor(k, cursor) ==
    /\ k.code = "Right" => cursor[2] < MaxCursor
    /\ k.code = "Down" => cursor[1] < MaxCursor /\ state.chat_wrapped.page < MaxCursor

InitKeys ==
    /\ Init
    /\ api = "openai"

SpecKeys ==
    InitKeys /\
    [][\/ ChatEnter
       \/ Tick
       \/ PollTimeout
       \/ SilenceElapses
       \/ \E k \in AllKeys :
             /\ Cardinality({w \in Workers : workers[w].pc # "idle"}) < MaxKeySubmissions
             /\ WithinCursor(k, state.chat_cursor)
             /\ NormalKey(k)
       \/ \E k \in AllKeys :
             /\ (InsertsText(k) => Len(state.input_wrapped.content) < MaxInput)
             /\ WithinCursor(k, state.input_cursor)
             /\ InsertKey(k)
       \/ OtherEvent
      ]_vars

----------------------------------------------------------------------------
(* The input pane with multi-byte text: pastes of U+00E9, typing, cursor   *)
(* keys, backspaces and ctrl+w in Insert mode, and the frames between.     *)

\* bytes in the input buffer
MaxUtf8Input == 4

SpecUtf8 ==
    InitKeys /\
    [][\/ ChatEnter
       \/ Tick
       \/ NormalKey(KeyEvent("Char", "i", "none"))
       \/ \E k \in
             {Paste(<<"C3", "A9">>), Paste(<<"a", "C3", "A9">>),
              KeyEvent("Char", "a", "none"), KeyEvent("Char", " ", "none"),
              KeyEvent("Char", "w", "ctrl"), KeyEvent("Backspace", "", "none"),
              KeyEvent("Left", "", "none"), KeyEvent("Right", "", "none"),
              KeyEvent("Esc", "", "none")} :
             /\ InsertsText(k) =>
                   Len(state.input_wrapped.content)
                       + (IF k.clip # <<>> THEN Len(k.clip) ELSE 1) <= MaxUtf8Input
             /\ WithinCursor(k, state.input_cursor)
             /\ InsertKey(k)
      ]_vars

----------------------------------------------------------------------------
(* ChatState::rewrap on its own: any well-formed content, viewports of     *)
(* width 4 and more.                                                       *)

\* bytes of a content to rewrap
MaxRewrapLen == 4

\* widest viewport
MaxWidth == 5

InitRewrap ==
    /\ ProgramInit
    /\ api = "openai"
    /\ args \in [content : {c \in StringsUpTo({"a", Newline, "C3", "A9"},
                                                MaxRewrapLen) : ValidUtf8(c)},
                 width : 4..MaxWidth,
                 input_mode : {"Normal", "Insert"}]
    /\ result = NoResult

\* rewrap is called on a state whose focused pane holds the content
Rewrap ==
    /\ result = NoResult
    /\ LET pane == [NewWrappedText EXCEPT !.content = args.content]
           s == [NewChatState(<<>>) EXCEPT !.input_mode = args.input_mode,
                                          !.input_wrapped = pane,
                                          !.chat_wrapped = pane]
           r == rewrap(s, args.width)
       IN  result' = Returned(IF args.input_mode = "Normal" THEN r.chat_wrapped
                              ELSE r.input_wrapped)
    /\ UNCHANGED <<program, args>>

SpecRewrap == InitRewrap /\ [][Rewrap]_vars

----------------------------------------------------------------------------
(* WrappedText's operations on their own, on a new buffer.                 *)

\* tallest viewport
MaxHeight == 5

InitBuffer ==
    /\ ProgramInit
    /\ api = "openai"
    /\ args \in
          [op : {"display"},
           text : {c \in StringsUpTo({"a", " ", Newline, "C3", "A9"},
                                     MaxRewrapLen) : ValidUtf8(c)},
           width : 4..MaxWidth]
          \cup [op : {"delete_word"},
                text : {c \in StringsUpTo({"a", "b", "C3", "A9"}, MaxRewrapLen) :
                           c # <<>> /\ ValidUtf8(c)},
                width : {Frame.width}]
          \cup [op : {"clamp"},
                text : StringsUpTo({"a", Newline}, MaxRewrapLen),
                width : {4},
                height : 3..MaxHeight,
                page : 0..1,
                cursor : (0..MaxCursor) \X (0..MaxCursor),
                input_mode : {"Normal", "Insert"}]
    /\ result = NoResult

\* insert(text, 0, 0) into the empty input buffer, rewrap, display() at page 0
InsertDisplay ==
    /\ result = NoResult
    /\ args.op = "display"
    /\ LET pane == insert(NewWrappedText, args.text, 0, 0)
           s == [NewChatState(<<>>) EXCEPT !.input_mode = "Insert",
                                          !.input_wrapped = pane]
       IN  result' = display(rewrap(s, args.width).input_wrapped)
    /\ UNCHANGED <<program, args>>

\* insert(word + " ", 0, 0) into the empty input buffer, the rewrap of the next
\* frame (nothing wraps), then delete_word(0, len(word))
InsertDeleteWord ==
    /\ result = NoResult
    /\ args.op = "delete_word"
    /\ LET pane == insert(NewWrappedText, args.text \o <<" ">>, 0, 0)
           s == [NewChatState(<<>>) EXCEPT !.input_mode = "Insert",
                                          !.input_wrapped = pane]
       IN  result' = delete_word(rewrap(s, args.width).input_wrapped,
                                 0, Len(args.text))
    /\ UNCHANGED <<program, args>>

\* clamp_cursor on a state whose panes hold the rewrapped text, at a page and
\* with a cursor of any value
Clamp ==
    /\ result = NoResult
    /\ args.op = "clamp"
    /\ LET r == RewrapFrom(args.text, 1, args.width, 0, <<>>, <<>>)
           pane == [content |-> r.content, line_lengths |-> r.line_lengths,
                    page |-> args.page, window_size |-> <<args.width, args.height>>]
           s == [NewChatState(<<>>) EXCEPT !.input_mode = args.input_mode,
                                          !.input_wrapped = pane,
                                          !.chat_wrapped = pane,
                                          !.input_cursor = args.cursor,
                                          !.chat_cursor = args.cursor]
           clamped == clamp_cursor(s)
       IN  result' = IF clamped = Panicked THEN Panicked ELSE Returned(clamped)
    /\ UNCHANGED <<program, args>>

SpecBuffer == InitBuffer /\ [][InsertDisplay \/ InsertDeleteWord \/ Clamp]_vars

----------------------------------------------------------------------------
(* Chunked-transfer decoding of the two non-streaming clients. *)

\* chunks of a response
MaxChunks == 2

\* a length in hexadecimal
RECURSIVE HexText(_)
HexText(n) ==
    IF n < 16 THEN <<HexDigits[n + 1]>>
    ELSE HexText(n \div 16) \o <<HexDigits[(n % 16) + 1]>>

\* the body of a chunked response: each chunk's size line, payload and CRLF,
\* then the zero-size chunk
RECURSIVE EncodeChunks(_)
EncodeChunks(chunks) ==
    IF chunks = <<>> THEN <<"0">> \o CRLF \o CRLF
    ELSE HexText(Len(Head(chunks))) \o CRLF \o Head(chunks) \o CRLF
             \o EncodeChunks(Tail(chunks))

InitChunked ==
    /\ ProgramInit
    /\ api = "openai"
    /\ args \in
          [client : {"network", "openai"},
           chunks :
              {chunks \in StringsUpTo(
                   {<<"a">>, <<Newline>>, <<"0">>, CRLF, CRLF \o CRLF, <<"C3">>,
                    <<"A9">>, <<"C3", "A9">>, [i \in 1..10 |-> "a"],
                    [i \in 1..17 |-> "a"]},
                   MaxChunks) :
                  ValidUtf8(Concat(chunks))}]
    /\ result = NoResult

\* network::prompt reads the chunked body
NetworkPromptChunked ==
    /\ result = NoResult
    /\ args.client = "network"
    /\ result' = prompt_chunked(EncodeChunks(args.chunks), 1, <<>>)
    /\ UNCHANGED <<program, args>>

\* openai::prompt reads the chunked body
OpenaiPromptChunked ==
    /\ result = NoResult
    /\ args.client = "openai"
    /\ result' = openai_prompt_chunked(EncodeChunks(args.chunks))
    /\ UNCHANGED <<program, args>>

SpecChunked == InitChunked /\ [][NetworkPromptChunked \/ OpenaiPromptChunked]_vars

----------------------------------------------------------------------------
(* Unescaping of a JSON string by the streaming decoders and by prompt. *)

\* bytes of a text to unescape
MaxUnescapeLen == 3

InitUnescape ==
    /\ ProgramInit
    /\ api = "openai"
    /\ args \in [decoder : {"stream", "prompt"},
                 text : StringsUpTo({Backslash, DQuote, Apostrophe, Newline, "n"},
                                    MaxUnescapeLen)]
    /\ result = NoResult

\* process_openai_stream / process_anthropic_stream unescape a delta
StreamUnescape ==
    /\ result = NoResult
    /\ args.decoder = "stream"
    /\ result' = Returned(UnescapeDelta(StrValue(args.text)))
    /\ UNCHANGED <<program, args>>

\* prompt unescapes the content of the response
PromptUnescape ==
    /\ result = NoResult
    /\ args.decoder = "prompt"
    /\ result' = prompt_unescape(StrValue(args.text))
    /\ UNCHANGED <<program, args>>

SpecUnescape == InitUnescape /\ [][StreamUnescape \/ PromptUnescape]_vars

----------------------------------------------------------------------------
(* build_request: the bytes of the HTTP request of one API call.  Texts are *)
(* byte sequences; a literal is written out byte by byte with the text it  *)
(* spells in the comment above it.                                         *)

\* messages of a chat history
MaxHistory == 1

\* MessageType::to_string
MessageTypeText(message_type) ==
    CASE message_type = "System" -> <<"s", "y", "s", "t", "e", "m">>
      [] message_type = "User" -> <<"u", "s", "e", "r">>
      [] message_type = "Assistant" -> <<"a", "s", "s", "i", "s", "t", "a", "n", "t">>

\* a usize or u16 printed in decimal
RECURSIVE DecText(_)
DecText(n) ==
    IF n < 10 THEN <<HexDigits[n + 1]>>
    ELSE DecText(n \div 10) \o <<HexDigits[(n % 10) + 1]>>

\* the elements of "messages": {"content":...,"role":...} joined by commas
\* (serde_json writes an object's keys in sorted order)
RECURSIVE JsonMessages(_)
JsonMessages(messages) ==
    IF messages = <<>> THEN <<>>
    ELSE \* {"content":
         <<"{", DQuote, "c", "o", "n", "t", "e", "n", "t", DQuote, ":">>
         \o JsonToString(StrValue(Head(messages).content))
         \* ,"role":
         \o <<",", DQuote, "r", "o", "l", "e", DQuote, ":">>
         \o JsonToString(StrValue(MessageTypeText(Head(messages).message_type)))
         \o <<"}">>
         \o (IF Len(messages) > 1 THEN <<",">> ELSE <<>>)
         \o JsonMessages(Tail(messages))

\* the elements of gemini's "contents": {"parts":[{"text":...}],"role":...};
\* Panicked for a message that is neither User nor Assistant
RECURSIVE GeminiContents(_)
GeminiContents(messages) ==
    IF messages = <<>> THEN <<>>
    ELSE LET rest == GeminiContents(Tail(messages))
         IN  IF Head(messages).message_type \notin {"User", "Assistant"}
                    \/ rest = Panicked
             THEN Panicked
             ELSE \* {"parts":[{"text":
                  <<"{", DQuote, "p", "a", "r", "t", "s", DQuote, ":", "[", "{",
                    DQuote, "t", "e", "x", "t", DQuote, ":">>
                  \o JsonToString(StrValue(Head(messages).content))
                  \* }],"role":
                  \o <<"}", "]", ",", DQuote, "r", "o", "l", "e", DQuote, ":">>
                  \o JsonToString(StrValue(
                         IF Head(messages).message_type = "User"
                         THEN <<"u", "s", "e", "r">>
                         ELSE <<"m", "o", "d", "e", "l">>))
                  \o <<"}">>
                  \o (IF Len(messages) > 1 THEN <<",">> ELSE <<>>)
                  \o rest

\* get_openai_request_params, get_groq_request_params,
\* get_anthropic_request_params and get_gemini_request_params
request_params(provider, system_prompt, chat_history, stream, token) ==
    CASE provider = "openai" ->
           [provider |-> provider,
            \* api.openai.com
            host |-> <<"a", "p", "i", ".", "o", "p", "e", "n", "a", "i", ".", "c", "o",
                      "m">>,
            \* /v1/chat/completions
            path |-> <<"/", "v", "1", "/", "c", "h", "a", "t", "/", "c", "o", "m", "p",
                      "l", "e", "t", "i", "o", "n", "s">>,
            messages |-> <<Message("System", system_prompt)>> \o chat_history,
            \* gpt-4o-mini
            model |-> <<"g", "p", "t", "-", "4", "o", "-", "m", "i", "n", "i">>,
            stream |-> stream, authorization_token |-> token,
            max_tokens |-> [some |-> FALSE, value |-> 0],
            system_prompt |-> [some |-> FALSE, value |-> <<>>]]
      [] provider = "groq" ->
           [provider |-> provider,
            \* api.groq.com
            host |-> <<"a", "p", "i", ".", "g", "r", "o", "q", ".", "c", "o", "m">>,
            \* /openai/v1/chat/completions
            path |-> <<"/", "o", "p", "e", "n", "a", "i", "/", "v", "1", "/", "c", "h",
                      "a", "t", "/", "c", "o", "m", "p", "l", "e", "t", "i", "o", "n",
                      "s">>,
            messages |-> <<Message("System", system_prompt)>> \o chat_history,
            \* llama-3.2-90b-text-preview
            model |-> <<"l", "l", "a", "m", "a", "-", "3", ".", "2", "-", "9", "0", "b",
                       "-", "t", "e", "x", "t", "-", "p", "r", "e", "v", "i", "e", "w">>,
            stream |-> stream, authorization_token |-> token,
            max_tokens |-> [some |-> FALSE, value |-> 0],
            system_prompt |-> [some |-> FALSE, value |-> <<>>]]
      [] provider = "anthropic" ->
           [provider |-> provider,
            \* api.anthropic.com
            host |-> <<"a", "p", "i", ".", "a", "n", "t", "h", "r", "o", "p", "i", "c",
                      ".", "c", "o", "m">>,
            \* /v1/messages
            path |-> <<"/", "v", "1", "/", "m", "e", "s", "s", "a", "g", "e", "s">>,
            messages |-> chat_history,
            \* claude-3-5-sonnet-latest
            model |-> <<"c", "l", "a", "u", "d", "e", "-", "3", "-", "5", "-", "s", "o",
                       "n", "n", "e", "t", "-", "l", "a", "t", "e", "s", "t">>,
            stream |-> stream, authorization_token |-> token,
            max_tokens |-> [some |-> TRUE, value |-> 4096],
            system_prompt |-> [some |-> TRUE, value |-> system_prompt]]
      [] provider = "gemini" ->
           [provider |-> provider,
            \* generativelanguage.googleapis.com
            host |-> <<"g", "e", "n", "e", "r", "a", "t", "i", "v", "e", "l", "a", "n",
                      "g", "u", "a", "g", "e", ".", "g", "o", "o", "g", "l", "e", "a",
                      "p", "i", "s", ".", "c", "o", "m">>,
            \* /v1beta/models/gemini-1.5-flash-latest:generateContent
            path |-> <<"/", "v", "1", "b", "e", "t", "a", "/", "m", "o", "d", "e", "l",
                      "s", "/", "g", "e", "m", "i", "n", "i", "-", "1", ".", "5", "-",
                      "f", "l", "a", "s", "h", "-", "l", "a", "t", "e", "s", "t", ":",
                      "g", "e", "n", "e", "r", "a", "t", "e", "C", "o", "n", "t", "e",
                      "n", "t">>,
            messages |-> chat_history,
            model |-> <<>>,
            stream |-> stream, authorization_token |-> token,
            max_tokens |-> [some |-> TRUE, value |-> 4096],
            system_prompt |-> [some |-> TRUE, value |-> system_prompt]]

\* the JSON body build_request serializes, or Panicked
request_body(params) ==
    CASE params.provider \in {"openai", "groq"} ->
           \* {"messages":[
           <<"{", DQuote, "m", "e", "s", "s", "a", "g", "e", "s", DQuote, ":",
             "[">>
           \o JsonMessages(params.messages)
           \* ],"model":
           \o <<"]", ",", DQuote, "m", "o", "d", "e", "l", DQuote, ":">>
           \o JsonToString(StrValue(params.model))
           \* ,"stream":
           \o <<",", DQuote, "s", "t", "r", "e", "a", "m", DQuote, ":">>
           \o (IF params.stream THEN <<"t", "r", "u", "e">>
               ELSE <<"f", "a", "l", "s", "e">>) \o <<"}">>
      [] params.provider = "anthropic" ->
           IF ~params.max_tokens.some \/ ~params.system_prompt.some THEN Panicked
           ELSE \* {"max_tokens":
                <<"{", DQuote, "m", "a", "x", "_", "t", "o", "k", "e", "n", "s",
                  DQuote, ":">>
                \o DecText(params.max_tokens.value)
                \* ,"messages":[
                \o <<",", DQuote, "m", "e", "s", "s", "a", "g", "e", "s", DQuote, ":",
                     "[">>
                \o JsonMessages(params.messages)
                \* ],"model":
                \o <<"]", ",", DQuote, "m", "o", "d", "e", "l", DQuote, ":">>
                \o JsonToString(StrValue(params.model))
                \* ,"stream":
                \o <<",", DQuote, "s", "t", "r", "e", "a", "m", DQuote, ":">>
                \o (IF params.stream THEN <<"t", "r", "u", "e">>
                    ELSE <<"f", "a", "l", "s", "e">>)
                \* ,"system":
                \o <<",", DQuote, "s", "y", "s", "t", "e", "m", DQuote, ":">>
                \o JsonToString(StrValue(params.system_prompt.value)) \o <<"}">>
      [] params.provider = "gemini" ->
           LET contents == GeminiContents(params.messages)
           IN  IF contents = Panicked THEN Panicked
               ELSE \* {"contents":[
                    <<"{", DQuote, "c", "o", "n", "t", "e", "n", "t", "s", DQuote, ":",
                      "[">>
                    \o contents
                    \* ],"systemInstruction":{"parts":[{"text":
                    \o <<"]", ",", DQuote, "s", "y", "s", "t", "e", "m", "I", "n", "s", "t",
                         "r", "u", "c", "t", "i", "o", "n", DQuote, ":", "{", DQuote, "p",
                         "a", "r", "t", "s", DQuote, ":", "[", "{", DQuote, "t", "e", "x",
                         "t", DQuote, ":">>
                    \o (IF params.system_prompt.some
                        THEN JsonToString(StrValue(params.system_prompt.value))
                        ELSE NullText)
                    \* }]}}
                    \o <<"}", "]", "}", "}">>
      [] OTHER -> Panicked

\* the header that carries the key, with its CRLF
auth_string(params) ==
    CASE params.provider \in {"openai", "groq"} ->
           \* Authorization: Bearer
           <<"A", "u", "t", "h", "o", "r", "i", "z", "a", "t", "i", "o", "n",
             ":", " ", "B", "e", "a", "r", "e", "r", " ">>
               \o params.authorization_token \o CRLF
      [] params.provider = "anthropic" ->
           \* x-api-key:
           <<"x", "-", "a", "p", "i", "-", "k", "e", "y", ":", " ">>
               \o params.authorization_token \o CRLF
      [] OTHER -> CRLF

\* the version header and the empty line, or the empty line alone
api_version(params) ==
    IF params.provider = "anthropic"
    THEN \* anthropic-version: 2023-06-01
         <<"a", "n", "t", "h", "r", "o", "p", "i", "c", "-", "v", "e", "r",
           "s", "i", "o", "n", ":", " ", "2", "0", "2", "3", "-", "0", "6",
           "-", "0", "1">>
             \o CRLF \o CRLF
    ELSE CRLF

\* every request ends its headers with api_version
version_or_nothing_kept(params) == api_version(params)

\* what build_request writes between auth_string and the body
version_or_nothing(params) ==
    IF api_version(params) = CRLF /\ auth_string(params) = CRLF THEN <<>>
    ELSE api_version(params)

\* build_request: Returned(the request's bytes), or Panicked
build_request(params) ==
    LET json_string == request_body(params)
        path ==
            IF params.provider = "gemini"
            THEN params.path \o <<"?", "k", "e", "y", "=">>
                     \o params.authorization_token
            ELSE params.path
    IN  IF json_string = Panicked THEN Panicked
        ELSE Returned(
            \* POST
            <<"P", "O", "S", "T", " ">> \o path
            \* HTTP/1.1
            \o <<" ", "H", "T", "T", "P", "/", "1", ".", "1">> \o CRLF
            \* Host:
            \o <<"H", "o", "s", "t", ":", " ">> \o params.host \o CRLF
            \* Content-Type: application/json
            \o <<"C", "o", "n", "t", "e", "n", "t", "-", "T", "y", "p", "e", ":",
                 " ", "a", "p", "p", "l", "i", "c", "a", "t", "i", "o", "n", "/",
                 "j", "s", "o", "n">> \o CRLF
            \* Content-Length:
            \o <<"C", "o", "n", "t", "e", "n", "t", "-", "L", "e", "n", "g", "t",
                 "h", ":", " ">>
            \o DecText(Len(json_string)) \o CRLF
            \* Accept: */*
            \o <<"A", "c", "c", "e", "p", "t", ":", " ", "*", "/", "*">> \o CRLF
            \o auth_string(params)
            \o version_or_nothing(params)
            \o TrimEnd(TrimStart(json_string)))

\* chat histories; the contents are empty, a letter, a blank, a quote, a line
\* break and a two-byte character
ChatHistories ==
    UNION {[1..n -> {Message(t, c) :
                        t \in {"User", "Assistant"},
                        c \in {<<>>, <<"a">>, <<" ">>, <<DQuote>>, <<Newline>>,
                               <<"C3", "A9">>}}] :
             n \in 0..MaxHistory}

InitRequest ==
    /\ ProgramInit
    /\ api = "openai"
    /\ args \in [provider : {"openai", "groq", "anthropic", "gemini"},
                 system_prompt : {<<>>, <<"s">>}, chat_history : ChatHistories,
                 stream : BOOLEAN, token : {<<>>, <<"k">>}]
    /\ result = NoResult

\* prompt / prompt_stream build the request of a call
BuildRequest ==
    /\ result = NoResult
    /\ result' = build_request(request_params(args.provider, args.system_prompt,
                     args.chat_history, args.stream, args.token))
    /\ UNCHANGED <<program, args>>

SpecRequest == InitRequest /\ [][BuildRequest]_vars

----------------------------------------------------------------------------
(* Properties of the chat view. *)

\* the workers in flight
Flying == {w \in Workers : workers[w].pc \in {"connect", "read"}}
\* the workers a step spawns
Spawned == {w \in Workers : workers[w].pc = "idle" /\ workers'[w].pc # "idle"}

\* C1: one submission, its worker forwards d1..dn and terminates, the view is
\* left: the conversation written is the one loaded followed by exactly
\* User(input) and Assistant(d1 .. dn)
C1_EndToEndPersisted ==
    [][(/\ \E k \in NormalKeys : LeaveChat(k)
        /\ workers[1].pc = "done"
        /\ workers[1].slot = Len(conversation) + 2
        /\ \A w \in Workers \ {1} : workers[w].pc = "idle")
          => \E c \in TypedChars :
                disk'[conversation_path] =
                    conversation \o <<Message("User", <<c>>),
                                      Message("Assistant", workers[1].forwarded)>>
    ]_vars

\* C11: a delta is on the channel as soon as the decoder has handled its
\* line, the worker then going on to read the next line; and a frame drains the
\* head of the channel into the last message whatever the workers are doing
C11_IncrementalDelivery ==
    [][/\ \A w \in Workers, line \in ChatLines :
            (/\ WorkerLine(w, line)
             /\ workers[w].attached
             /\ process_stream(api, line).send # <<>>)
                => /\ chan' = Append(chan, [text |-> process_stream(api, line).send[1],
                                            from |-> w])
                   /\ workers'[w].pc = "read"
       /\ (Tick /\ chan # <<>> /\ proc' = "running")
            => /\ chan' = Tail(chan)
               /\ state'.chat_messages[Len(state.chat_messages)].content =
                      state.chat_messages[Len(state.chat_messages)].content
                          \o Head(chan).text
    ]_vars

\* the view shows a delta of a worker that is still reading its stream
C11_Witness ==
    /\ InChat("poll")
    /\ workers[1].pc = "read"
    /\ workers[2].pc = "idle"
    /\ workers[1].forwarded # <<>>
    /\ Len(state.chat_messages) = 2
    /\ state.chat_messages[2].content = workers[1].forwarded

\* C2: a step submits exactly when it is Enter in Normal mode with a non-empty
\* input: it then appends User(input) and an empty Assistant message, clears the
\* input and spawns exactly one worker; every other step in the view (Enter
\* with an empty input, any key in Insert mode) appends no message and spawns
\* no worker
C2_SubmissionExactlyOnEnter ==
    [][LET input == state.input_wrapped.content
           submitting == /\ input # <<>>
                         /\ \E k \in AllKeys : k.code = "Enter" /\ NormalKey(k)
       IN  /\ submitting =>
                /\ state'.chat_messages =
                       state.chat_messages \o <<Message("User", input),
                                                Message("Assistant", <<>>)>>
                /\ state'.input_wrapped.content = <<>>
                /\ Cardinality(Spawned) = 1
                /\ \A w \in Workers \ Spawned : workers'[w] = workers[w]
           /\ (~submitting /\ view_pc # "enter") =>
                /\ Len(state'.chat_messages) = Len(state.chat_messages)
                /\ workers' = workers
    ]_vars

\* a submission has happened: two messages, an empty input, one worker
C2_Witness ==
    /\ state.chat_messages = <<Message("User", <<"a", Newline>>), Message("Assistant", <<>>)>>
    /\ state.input_wrapped.content = <<>>
    /\ workers[1].pc = "connect"
    /\ workers[2].pc = "idle"

\* C3: at most one worker spawned by the chat view is in flight
C3_AtMostOneWorkerInFlight == Cardinality(Flying) <= 1

\* C4: a delta of the worker of submission k is appended to the Assistant
\* placeholder that submission k pushed, and to no other message
C4_DeltaToOwnPlaceholder ==
    [][(view_pc = "tick" /\ chan # <<>> /\ chan' = Tail(chan)) =>
          \A i \in 1..Len(state.chat_messages) :
              state'.chat_messages[i] # state.chat_messages[i] =>
                  i = workers[Head(chan).from].slot
    ]_vars

\* C5: the loop never waits for a key without a timeout, so that no queued
\* delta waits for a key press: the view is never inside event::read() with
\* no poll before it while a delta is in the channel
C5_NoDeltaBehindBlockingRead == ~(InChat("read") /\ chan # <<>>)

\* C6: a failure in a worker (connect, TLS, write, decode) never ends the
\* process
C6_WorkerFailureNotFatal == proc # "exited"

\* C15: in every step of the chat view the message list keeps its messages,
\* their order and their roles; the only content that changes is that of the
\* last message, an Assistant one, to which the drained delta is appended
C15_MessagesAppendOnly ==
    [][LET old == state.chat_messages
           new == state'.chat_messages
       IN  /\ Len(new) >= Len(old)
           /\ \A i \in 1..Len(old) :
                 /\ new[i].message_type = old[i].message_type
                 /\ IsPrefix(old[i].content, new[i].content)
                 /\ new[i].content # old[i].content =>
                       /\ i = Len(old) /\ Len(new) = Len(old)
                       /\ old[i].message_type = "Assistant"
                       /\ chan # <<>>
                       /\ new[i].content = old[i].content \o Head(chan).text
    ]_vars

\* two submissions were made and deltas reached both placeholders
C15_Witness ==
    /\ Len(state.chat_messages) = 4
    /\ state.chat_messages[2].content # <<>>
    /\ state.chat_messages[4].content # <<>>

C17_ModeSwitchKeepsPanes ==
    [][/\ (state.input_mode = "Normal" /\ state'.input_mode = "Insert") =>
              \E k \in AllKeys : (IsChar(k, "i") \/ IsChar(k, "a")) /\ NormalKey(k)
       /\ (state.input_mode = "Insert" /\ state'.input_mode = "Normal") =>
              \E k \in AllKeys : k.code = "Esc" /\ InsertKey(k)
       /\ \A k \in AllKeys :
              /\ ((IsChar(k, "i") \/ IsChar(k, "a")) /\ NormalKey(k)) =>
                     state'.input_mode = "Insert"
              /\ (k.code = "Esc" /\ InsertKey(k)) => state'.input_mode = "Normal"
       /\ state'.input_mode # state.input_mode =>
              /\ state'.input_wrapped.content = state.input_wrapped.content
              /\ state'.chat_wrapped.content = state.chat_wrapped.content
              /\ state'.input_cursor = state.input_cursor
              /\ state'.chat_cursor = state.chat_cursor
              /\ state'.input_wrapped.page = state.input_wrapped.page
              /\ state'.chat_wrapped.page = state.chat_wrapped.page
    ]_vars

\* Insert mode was entered, text was typed and Esc went back to Normal mode
\* with the input and its cursor as they were
C17_Witness ==
    /\ state.input_mode = "Normal"
    /\ view_pc = "tick"
    /\ state.input_wrapped.content # <<>>
    /\ state.input_cursor # <<0, 0>>
    /\ state.chat_messages = <<>>

----------------------------------------------------------------------------
(* Properties of the decoders, checked under SpecStream. *)

\* the deltas worker w has put on the queue
FromWorker(w, queue) == SelectSeq(queue, LAMBDA m : m.from = w)

\* C7: in both decoders a `data:` event whose payload fails to parse forwards
\* no delta, and the decoder goes on with the next line (the process lives on)
C7_ParseFailureSkipped ==
    [][\A w \in Workers :
          WorkerLine(w, PlainLine("bad")) =>
              /\ chan' = chan
              /\ workers'[w].pc = "read"
              /\ proc' = "running"
    ]_vars

\* C8: the OpenAI-shaped decoder forwards, for every `data:` event that carries
\* a string at choices[0].delta.content, exactly that string; `data: [DONE]`
\* ends the decoder cleanly and nothing is forwarded after it
C8_OpenAIDeltasExact ==
    [][(api \in {"openai", "groq"}) =>
          \A w \in Workers :
              /\ \A line \in OpenAILines :
                    (~line.content.null /\ WorkerLine(w, line)) =>
                        chan' = Append(chan, [text |-> line.content.str, from |-> w])
              /\ WorkerLine(w, PlainLine("done")) =>
                    chan' = chan /\ workers'[w].pc = "done" /\ proc' = "running"
              /\ workers[w].pc = "done" =>
                    workers'[w].pc = "done" /\ FromWorker(w, chan') = FromWorker(w, chan)
    ]_vars

\* C9: in the Anthropic-shaped decoder a line starting with `event:
\* message_stop` ends the stream: the line forwards nothing, the worker is done,
\* and a worker that is done reads no further line and forwards no further delta
C9_MessageStopEndsStream ==
    [][api = "anthropic" =>
          \A w \in Workers :
              /\ WorkerLine(w, PlainLine("stop")) =>
                    chan' = chan /\ workers'[w].pc = "done"
              /\ workers[w].pc = "done" =>
                    /\ workers'[w] = workers[w]
                    /\ FromWorker(w, chan') = FromWorker(w, chan)
    ]_vars

\* a delta was forwarded and then message_stop ended the stream
C9_Witness ==
    /\ api = "anthropic"
    /\ workers[1].pc = "done"
    /\ workers[1].event_buffer = PlainLine("stop")
    /\ chan # <<>>

\* C10: the Anthropic-shaped decoder forwards a delta for a well-formed `data:`
\* event exactly when its type is content_block_delta, the forwarded text is
\* the event's delta.text, and an event of another type does not end the stream
C10_AnthropicDeltaIffType ==
    [][api = "anthropic" =>
          \A w \in Workers, line \in AnthropicLines :
              (~line.text.null /\ WorkerLine(w, line)) =>
                  /\ workers'[w].pc = "read"
                  /\ chan' = IF line.type = "content_block_delta"
                             THEN Append(chan, [text |-> line.text.str, from |-> w])
                             ELSE chan
    ]_vars

----------------------------------------------------------------------------
(* Properties of the functions called on their own. *)

\* C12: the body decoded from a chunked response is the concatenation of the
\* payloads of the chunks before the zero-size chunk, in both clients
C12_ChunkedDecoding ==
    result # NoResult => result = Returned(Concat(args.chunks))

\* C13: unescaping the JSON serialization of a text made of backslashes,
\* double quotes, apostrophes, newlines and the letter n gives back the text
C13_UnescapeInverse ==
    result # NoResult => result = Returned(args.text)

\* the byte after which the body of a request starts: the end of the first
\* empty line (0: there is none)
BodyStart(request) ==
    LET i == FindSub(request, CRLF \o CRLF, 1) IN IF i = 0 THEN 0 ELSE i + 4

\* the header lines of a request, each with its CRLF
HeaderLines(request) == SubSeq(request, 1, BodyStart(request) - 3)

\* the body a server reads after the empty line
BodyOf(request) == SubSeq(request, BodyStart(request), Len(request))

\* the digits of the Content-Length header
ContentLengthText(request) ==
    LET name == <<"C", "o", "n", "t", "e", "n", "t", "-", "L", "e", "n", "g", "t",
                  "h", ":", " ">>
        i == FindSub(HeaderLines(request), name, 1)
        j == FindSub(HeaderLines(request), CRLF, i)
    IN  IF i = 0 THEN <<>> ELSE SubSeq(request, i + Len(name), j - 1)

\* C14: for each provider the request has header lines that all end with CRLF
\* (no CR or LF outside a CRLF pair), one empty line between the headers and
\* the body, the body being the serialized JSON, and a Content-Length equal to
\* the byte length of that body
C14_RequestFraming ==
    result # NoResult =>
        /\ result # Panicked
        /\ LET request == result.value
               headers == HeaderLines(request)
               params == request_params(args.provider, args.system_prompt,
                                        args.chat_history, args.stream, args.token)
           IN  /\ BodyStart(request) # 0
               /\ \A i \in 1..Len(headers) :
                     /\ headers[i] = CR => i < Len(headers) /\ headers[i + 1] = Newline
                     /\ headers[i] = Newline => i > 1 /\ headers[i - 1] = CR
               /\ SubSeq(headers, Len(headers) - 1, Len(headers)) = CRLF
               /\ BodyOf(request) = request_body(params)
               /\ ContentLengthText(request) = DecText(Len(BodyOf(request)))

\* a gemini request was built for a history whose message holds a two-byte
\* character
C14_Witness ==
    /\ result # NoResult /\ result # Panicked
    /\ args.provider = "gemini"
    /\ args.chat_history # <<>>
    /\ args.chat_history[1].content = <<"C3", "A9">>
    /\ args.token # <<>>
    /\ Len(BodyOf(result.value)) > 9

----------------------------------------------------------------------------
(* Properties of the input pane with multi-byte text, checked under        *)
(* SpecUtf8.                                                               *)

\* the state a frame has reached when it comes to the queued backspaces
BeforeDeletions == Then(Then(DrawRewrap(state), DrawPaging), DrawUpdate)

\* the byte of the content the input cursor stands at, counted as insert counts
CursorByte(s) ==
    s.input_cursor[2] + (IF s.input_cursor[1] > 0 THEN 1 ELSE 0)
        + SumLengths(s.input_wrapped.line_lengths,
                     s.input_cursor[1] + s.input_wrapped.page)

\* C18: with multi-byte text in the input, the range a frame removes for the
\* queued backspaces, the range ctrl+w removes and the ranges display() shows
\* all start and end on code-point boundaries, and after a frame the input
\* cursor does not stand inside a code point
C18_RangesOnBoundaries ==
    [][/\ (Tick /\ state.pending_deletions > 0 /\ BeforeDeletions # Panicked) =>
              LET s == BeforeDeletions
                  offset == deletion_offset(s)
                  pending == Min(offset, s.pending_deletions)
              IN  (offset # PANIC /\ pending > 0) =>
                      ~RangePanics(s.input_wrapped.content, offset - pending, offset)
       /\ InsertKey(KeyEvent("Char", "w", "ctrl")) =>
              LET wt == state.input_wrapped
                  range == delete_word_range(wt, state.input_cursor[1],
                                             state.input_cursor[2])
              IN  range # <<PANIC, PANIC>> =>
                      ~RangePanics(wt.content, range[1], range[2])
       /\ (Tick /\ proc' = "running") =>
              /\ \A wt \in {state'.input_wrapped, state'.chat_wrapped} :
                    (wt.line_lengths # <<>> /\ display_range(wt) # <<PANIC, PANIC>>) =>
                        ~RangePanics(wt.content, display_range(wt)[1],
                                     display_range(wt)[2])
              /\ (/\ state'.input_mode = "Insert"
                  /\ state'.input_cursor[1] + state'.input_wrapped.page
                        <= Len(state'.input_wrapped.line_lengths)
                  /\ CursorByte(state') <= Len(state'.input_wrapped.content)) =>
                    is_byte_boundary(state'.input_wrapped.content, CursorByte(state'))
    ]_vars

\* C19: once the chat view has built its state, the line_lengths of both
\* panes hold at least one entry, whatever the content
C19_LineLengthsNonEmpty ==
    (proc = "running" /\ window = "Chat" /\ view_pc # "enter") =>
        /\ Len(state.input_wrapped.line_lengths) >= 1
        /\ Len(state.chat_wrapped.line_lengths) >= 1

\* C23: when a frame has been drawn, the page of each pane is at most
\* max(0, visual lines - visible rows), and page + cursor row is the index of
\* a visual line of the pane (or 0 in a pane without lines); the view does not
\* stop on a page key
C23_PageWithinBounds ==
    /\ (window = "Chat" /\ view_pc # "enter") => proc # "panicked"
    /\ (proc = "running" /\ window = "Chat" /\ view_pc \in {"poll", "read"}) =>
          /\ \A wt \in {state.input_wrapped, state.chat_wrapped} :
                wt.page <= Max(0, Len(wt.line_lengths) - (wt.window_size[2] - 2))
          /\ state.chat_cursor[1] + state.chat_wrapped.page
                <= Max(0, Len(state.chat_wrapped.line_lengths) - 1)
          /\ state.input_cursor[1] + state.input_wrapped.page
                <= Max(0, Len(state.input_wrapped.line_lengths) - 1)

----------------------------------------------------------------------------
(* Properties of rewrap, checked under SpecRewrap. *)

\* C20: after rewrap the sum of line_lengths plus one byte for each line break
\* of the content is the byte length of the content
C20_LineLengthsSum ==
    result # NoResult =>
        LET wt == result.value
        IN  SumLengths(wt.line_lengths, Len(wt.line_lengths))
                + CountNewlines(wt.content) = Len(wt.content)

----------------------------------------------------------------------------
(* Properties of WrappedText's operations, checked under SpecBuffer. *)

\* C21: after insert(s, 0, 0) and rewrap, display() at page 0 shows all of s:
\* apart from line breaks and the whitespace trimmed at its ends, the text
\* shown is s, with nothing cut off at the end
C21_DisplayShowsInserted ==
    (result # NoResult /\ args.op = "display") =>
        /\ result # Panicked
        /\ TrimEnd(TrimStart(SelectSeq(result.text, LAMBDA b : b # Newline)))
              = TrimEnd(TrimStart(SelectSeq(args.text, LAMBDA b : b # Newline)))

\* C22: with a word and one space in an unwrapped buffer, delete_word at the
\* end of the word removes and returns the word and leaves the space
C22_DeleteWordInvertsInsert ==
    (result # NoResult /\ args.op = "delete_word") =>
        /\ result # Panicked
        /\ result.removed = args.text
        /\ result.wt.content = <<" ">>

\* C24: clamp_cursor leaves the cursor of the focused pane with a row of at
\* most min(last visual line, viewport height - 2) and a column of at most
\* L - 1 in Insert mode on a row above 0 and at most L otherwise, L being the
\* length of the visual line at page + row
C24_ClampedCursor ==
    (result # NoResult /\ args.op = "clamp" /\ result # Panicked) =>
        LET normal == args.input_mode = "Normal"
            cursor == IF normal THEN result.value.chat_cursor
                      ELSE result.value.input_cursor
            wt == result.value.input_wrapped
            lines == Len(wt.line_lengths)
        IN  IF lines = 0 THEN cursor = <<0, 0>>
            ELSE /\ cursor[1] <= Min(lines - 1, args.height - 2)
                 /\ cursor[1] + wt.page < lines
                 /\ cursor[2] <= wt.line_lengths[cursor[1] + wt.page + 1]
                                    - (IF ~normal /\ cursor[1] > 0 THEN 1 ELSE 0)

\* in Insert mode a cursor beyond the end of the second visual line was put
\* on that line's last column but one
C24_Witness ==
    /\ result # NoResult /\ args.op = "clamp" /\ result # Panicked
    /\ args.input_mode = "Insert"
    /\ args.text = <<"a", "a", "a", "a">>
    /\ args.page = 0
    /\ args.cursor = <<2, 2>>
    /\ result.value.input_cursor = <<1, 1>>

----------------------------------------------------------------------------
(* The config file merged into the command line.  An Option is a sequence  *)
(* of at most one element: <<>> is None and <<x>> is Some(x).  Texts are   *)
(* sequences of bytes.                                                      *)

\* ConfigParse::parse_config of the types Provider, bool and String; the value
\* is lower-cased as to_lowercase does for ASCII
parse_config(type, value) ==
    LET upper == <<"A", "B", "C", "D", "E", "F", "G", "H", "I", "J", "K", "L", "M",
                   "N", "O", "P", "Q", "R", "S", "T", "U", "V", "W", "X", "Y", "Z">>
        lower == <<"a", "b", "c", "d", "e", "f", "g", "h", "i", "j", "k", "l", "m",
                   "n", "o", "p", "q", "r", "s", "t", "u", "v", "w", "x", "y", "z">>
        to_lowercase ==
            [i \in 1..Len(value) |->
                IF \E k \in 1..26 : upper[k] = value[i]
                THEN lower[CHOOSE k \in 1..26 : upper[k] = value[i]]
                ELSE value[i]]
    IN  CASE type = "Provider" ->
                IF to_lowercase = <<"a", "n", "t", "h", "r", "o", "p", "i", "c">> THEN <<"Anthropic">>
                ELSE IF to_lowercase = <<"o", "p", "e", "n", "a", "i">> THEN <<"OpenAI">>
                ELSE <<>>
          [] type = "bool" ->
                IF to_lowercase \in {<<"t", "r", "u", "e">>, <<"1">>, <<"y", "e", "s">>, <<"o", "n">>} THEN <<TRUE>>
                ELSE IF to_lowercase \in {<<"f", "a", "l", "s", "e">>, <<"0">>, <<"n", "o">>, <<"o", "f", "f">>} THEN <<FALSE>>
                ELSE <<>>
          [] type = "String" -> <<value>>

\* merge_with_config's loop over the lines of the file.  Every option of Cli
\* is an Option<T>, whose parse_config is Some(T::parse_config(value)), so
\* the unwrap_or of config_fields always yields T::parse_config(value)
RECURSIVE merge_with_config(_, _)
merge_with_config(cli, config_content) ==
    IF config_content = <<>> THEN cli
    ELSE
        LET end == FindSub(config_content, <<Newline>>, 1)
            raw == IF end = 0 THEN config_content ELSE SubSeq(config_content, 1, end - 1)
            rest == IF end = 0 THEN <<>>
                    ELSE SubSeq(config_content, end + 1, Len(config_content))
            line == TrimEnd(TrimStart(raw))
            eq == FindSub(line, <<"=">>, 1)
            key == TrimEnd(TrimStart(SubSeq(line, 1, eq - 1)))
            value == TrimEnd(TrimStart(SubSeq(line, eq + 1, Len(line))))
            merged ==
                IF line = <<>> \/ Head(line) = "#" \/ eq = 0 THEN cli
                ELSE CASE key = <<"p", "r", "o", "v", "i", "d", "e", "r">> ->
                            [cli EXCEPT !.provider = parse_config("Provider", value)]
                       [] key = <<"l", "i", "s", "t">> ->
                            [cli EXCEPT !.list = parse_config("bool", value)]
                       [] key = <<"l", "o", "a", "d", "_", "l", "a", "s", "t", "_", "c", "o", "n",
                                "v", "e", "r", "s", "a", "t", "i", "o", "n">> ->
                            [cli EXCEPT !.load_last_conversation = parse_config("bool", value)]
                       [] key = <<"e", "d", "i", "t", "o", "r">> ->
                            [cli EXCEPT !.editor = parse_config("bool", value)]
                       [] key = <<"s", "y", "s", "t", "e", "m", "_", "p", "r", "o", "m", "p", "t">> ->
                            [cli EXCEPT !.system_prompt = parse_config("String", value)]
                       [] key = <<"o", "p", "e", "n">> ->
                            [cli EXCEPT !.open = parse_config("bool", value)]
                       [] key = <<"r", "e", "s", "p", "o", "n", "d">> ->
                            [cli EXCEPT !.respond = parse_config("bool", value)]
                       [] key = <<"s", "t", "r", "e", "a", "m">> ->
                            [cli EXCEPT !.stream = parse_config("bool", value)]
                       [] OTHER -> cli
        IN  merge_with_config(merged, rest)

\* longest config file, in lines
MaxConfigLines == 2

\* the command line as clap parsed it and the config file: unreadable, or up
\* to MaxConfigLines lines
InitConfig ==
    /\ ProgramInit
    /\ api = "openai"
    /\ args \in
          [cli : [provider : {<<>>, <<"OpenAI">>, <<"Anthropic">>},
                  list : {<<>>},
                  load_last_conversation : {<<>>},
                  editor : {<<>>, <<TRUE>>},
                  system_prompt : {<<>>, <<<<"p">>>>},
                  open : {<<>>},
                  respond : {<<>>},
                  stream : {<<>>, <<FALSE>>, <<TRUE>>}],
           config :
              {Failed} \cup
              {Returned(Concat([i \in 1..Len(ls) |-> ls[i] \o <<Newline>>])) :
                  ls \in StringsUpTo(
                      {<<"p", "r", "o", "v", "i", "d", "e", "r", "=", "a", "n", "t", "h",
                           "r", "o", "p", "i", "c">>,
                       <<"p", "r", "o", "v", "i", "d", "e", "r", " ", "=", " ", "O", "p",
                           "e", "n", "A", "I">>,
                       <<"p", "r", "o", "v", "i", "d", "e", "r", "=", "g", "e", "m", "i",
                           "n", "i">>,
                       <<"s", "t", "r", "e", "a", "m", "=", "o", "n">>,
                       <<"s", "t", "r", "e", "a", "m", "=", "n", "o">>,
                       <<"#", " ", "s", "t", "r", "e", "a", "m", "=", "o", "n">>,
                       <<"e", "d", "i", "t", "o", "r">>,
                       <<"s", "y", "s", "t", "e", "m", "_", "p", "r", "o", "m", "p", "t",
                           "=", "a", "=", "b">>,
                       <<"l", "i", "s", "t", "=", "1">>,
                       <<"l", "o", "a", "d", "_", "l", "a", "s", "t", "_", "c", "o", "n",
                           "v", "e", "r", "s", "a", "t", "i", "o", "n", "=", "y", "e", "s">>,
                       <<"o", "p", "e", "n", "=", "t", "r", "u", "e">>,
                       <<"r", "e", "s", "p", "o", "n", "d", "=", "o", "f", "f">>,
                       <<>>},
                      MaxConfigLines)}]
    /\ result = NoResult

\* merge_with_config: a config file that cannot be read leaves cli as it is
MergeWithConfig ==
    /\ result = NoResult
    /\ result' = Returned(IF args.config = Failed THEN args.cli
                          ELSE merge_with_config(args.cli, args.config.value))
    /\ UNCHANGED <<program, args>>

SpecConfig == InitConfig /\ [][MergeWithConfig]_vars

\* C25: every option given on the command line keeps its command-line value
\* in the merged Cli, whatever the config file contains
C25_CommandLinePriority ==
    result # NoResult =>
        \A f \in DOMAIN args.cli :
            args.cli[f] # <<>> => result.value[f] = args.cli[f]

----------------------------------------------------------------------------
(* The SQLite store.  In this specification args holds the database: its   *)
(* three tables, rows in rowid order, and the clock CURRENT_TIMESTAMP      *)
(* reads, in seconds.  result holds what the last call returned, always as *)
(* a sequence of records.  ids are AUTOINCREMENT rowids of tables nothing  *)
(* is deleted from.                                                         *)

\* most rows of the conversation and messages tables, and the latest second
MaxConversations == 2
MaxMessages == 4
MaxClock == 1

\* Database::new on a file that does not exist yet
InitSql ==
    /\ ProgramInit
    /\ api = "openai"
    /\ args = [conversation |-> <<>>, messages |-> <<>>, thread |-> <<>>, now |-> 0]
    /\ result = NoResult

\* a second passes between two calls
SecondElapses ==
    /\ args.now < MaxClock
    /\ args' = [args EXCEPT !.now = @ + 1]
    /\ UNCHANGED <<program, result>>

CreateConversation(title) ==
    /\ Len(args.conversation) < MaxConversations
    /\ LET id == Len(args.conversation) + 1
       IN  /\ args' = [args EXCEPT !.conversation =
                          Append(@, [conversation_id |-> id, title |-> title,
                                     created_at |-> args.now])]
           /\ result' = [op |-> "create_conversation", title |-> title,
                         value |-> <<[conversation_id |-> id]>>]
    /\ UNCHANGED program

\* the first row with the title is not the one the call is for
GetConversationFirst(title) ==
    /\ result' = [op |-> "get_conversation", title |-> title,
                  value |-> IF args.conversation = <<>> THEN <<>>
                            ELSE <<args.conversation[1]>>]
    /\ UNCHANGED <<program, args>>

\* query_row(..).optional(): the first row with the title, or None
GetConversation(title) ==
    /\ LET rows == SelectSeq(args.conversation, LAMBDA c : c.title = title)
       IN  result' = [op |-> "get_conversation", title |-> title,
                      value |-> IF rows = <<>> THEN <<>> ELSE <<Head(rows)>>]
    /\ UNCHANGED <<program, args>>

CreateMessage(content, role) ==
    /\ Len(args.messages) < MaxMessages
    /\ LET id == Len(args.messages) + 1
       IN  /\ args' = [args EXCEPT !.messages =
                          Append(@, [message_id |-> id, content |-> content,
                                     role |-> role, created_at |-> args.now])]
           /\ result' = [op |-> "create_message", title |-> <<>>,
                         value |-> <<[message_id |-> id]>>]
    /\ UNCHANGED program

\* one transaction: the message, then the thread from previous_message_id to it
CreateMessageWithThread(content, role, previous_message_id, conversation_id) ==
    /\ Len(args.messages) < MaxMessages
    /\ LET new_message_id == Len(args.messages) + 1
           thread_id == Len(args.thread) + 1
       IN  /\ args' = [args EXCEPT
                          !.messages =
                              Append(@, [message_id |-> new_message_id,
                                         content |-> content, role |-> role,
                                         created_at |-> args.now]),
                          !.thread =
                              Append(@, [thread_id |-> thread_id,
                                         previous_message_id |-> previous_message_id,
                                         next_message_id |-> new_message_id,
                                         conversation_id |-> conversation_id,
                                         created_at |-> args.now])]
           /\ result' = [op |-> "create_message_with_thread", title |-> <<>>,
                         value |-> <<[message_id |-> new_message_id,
                                      thread_id |-> thread_id]>>]
    /\ UNCHANGED program

\* SELECT DISTINCT ... ORDER BY m.created_at: the rows of messages that a
\* thread of a conversation with the title names, by created_at; SQL leaves
\* the order of rows with equal created_at open
GetConversationMessages(conversation_title) ==
    /\ LET rows ==
               {m \in 1..Len(args.messages) :
                   \E c \in 1..Len(args.conversation), t \in 1..Len(args.thread) :
                       /\ args.conversation[c].title = conversation_title
                       /\ args.thread[t].conversation_id
                             = args.conversation[c].conversation_id
                       /\ \/ args.messages[m].message_id
                                = args.thread[t].previous_message_id
                          \/ args.messages[m].message_id
                                = args.thread[t].next_message_id}
       IN  \E order \in [1..Cardinality(rows) -> rows] :
               /\ \A i, j \in DOMAIN order :
                     i < j => /\ order[i] # order[j]
                              /\ args.messages[order[i]].created_at
                                    <= args.messages[order[j]].created_at
               /\ result' = [op |-> "get_conversation_messages",
                             title |-> conversation_title,
                             value |-> [i \in DOMAIN order |-> args.messages[order[i]]]]
    /\ UNCHANGED <<program, args>>

SpecSql ==
    InitSql /\
    [][\/ SecondElapses
       \/ \E title \in {<<"t">>, <<"u">>} :
             \/ CreateConversation(title)
             \/ GetConversation(title)
             \/ GetConversationMessages(title)
       \/ CreateMessage(<<"a">>, "User")
       \/ \E previous_message_id \in 1..Len(args.messages),
             conversation_id \in 1..Len(args.conversation) :
             CreateMessageWithThread(<<"b">>, "Assistant", previous_message_id,
                                     conversation_id)
    ]_vars

\* C26: get_conversation_messages returns the messages that are an endpoint
\* of a thread of the named conversation, each once, in the order in which
\* they were created
C26_MessagesInCreationOrder ==
    (result # NoResult /\ result.op = "get_conversation_messages") =>
        result.value =
            SelectSeq(args.messages,
                      LAMBDA m :
                          \E c \in 1..Len(args.conversation), t \in 1..Len(args.thread) :
                              /\ args.conversation[c].title = result.title
                              /\ args.thread[t].conversation_id
                                    = args.conversation[c].conversation_id
                              /\ m.message_id \in {args.thread[t].previous_message_id,
                                                   args.thread[t].next_message_id})

----------------------------------------------------------------------------
(* Properties of the frame's steps, checked under Spec. *)

\* C28: in a tick with a non-empty pending update, the update step appends
\* the update to the transcript's content and rederives the transcript's
\* line_lengths at the pane's width, in Normal and Insert mode alike, and
\* leaves the input buffer's content and line_lengths as they were
C28_UpdateRewrapsTranscript ==
    (InChat("tick") /\ state.pending_chat_update # <<>>) =>
        LET before == Then(DrawRewrap(state), DrawPaging)
            after == DrawUpdate(before)
            wrapped == RewrapFrom(before.chat_wrapped.content \o state.pending_chat_update,
                                  1, frame.width, 0, <<>>, <<>>)
        IN  before # Panicked =>
                /\ after.chat_wrapped.content = wrapped.content
                /\ after.chat_wrapped.line_lengths = wrapped.line_lengths
                /\ after.input_wrapped.content = before.input_wrapped.content
                /\ after.input_wrapped.line_lengths = before.input_wrapped.line_lengths

\* C29: a tick drains at most one delta, appends it to the last message and
\* makes it the pending update; the following tick appends the pending update
\* to the transcript's content once; and between the two ticks no key event
\* takes the drained delta out of the pending update
C29_NoDeltaLost ==
    [][/\ (window = "Chat" /\ window' = "Chat") => Len(chan) - Len(chan') <= 1
       /\ (Tick /\ proc' = "running" /\ chan # <<>>) =>
             /\ chan' = Tail(chan)
             /\ state'.pending_chat_update = Head(chan).text
             /\ state'.chat_messages[Len(state'.chat_messages)].content
                   = state.chat_messages[Len(state.chat_messages)].content
                        \o Head(chan).text
       /\ (Tick /\ proc' = "running" /\ state.pending_chat_update # <<>>) =>
             LET old == state.chat_wrapped.content \o state.pending_chat_update
                 new == state'.chat_wrapped.content
             IN  /\ Len(new) = Len(old)
                 /\ \A i \in 1..Len(old) :
                       new[i] = old[i] \/ (is_whitespace(old[i]) /\ new[i] = Newline)
       /\ (/\ InChat("poll") \/ InChat("read")
           /\ window' = "Chat"
           /\ state.pending_chat_update # <<>>) =>
             state'.pending_chat_update = state.pending_chat_update
    ]_vars

\* C30: after the clamp step of a tick both cursors, the focused one and the
\* other, are within their panes: a row of at most min(last visual line,
\* viewport height - 2) and a column of at most the length of the visual line
\* at page + row; on a pane without lines the cursor is at (0, 0)
C30_BothCursorsClamped ==
    InChat("tick") =>
        LET clamped ==
                Then(Then(Then(Then(DrawRewrap(state), DrawPaging), DrawUpdate),
                          DrawDeletions), clamp_cursor)
            Within(cursor, wt) ==
                IF wt.line_lengths = <<>> THEN cursor = <<0, 0>>
                ELSE /\ cursor[1] <= Min(Len(wt.line_lengths) - 1, wt.window_size[2] - 2)
                     /\ cursor[1] + wt.page < Len(wt.line_lengths)
                     /\ cursor[2] <= wt.line_lengths[cursor[1] + wt.page + 1]
        IN  clamped # Panicked =>
                /\ Within(clamped.chat_cursor, clamped.chat_wrapped)
                /\ Within(clamped.input_cursor, clamped.input_wrapped)

C32_DeletionStep ==
    (InChat("tick") /\ state.pending_deletions > 0) =>
        LET before == Then(Then(DrawRewrap(state), DrawPaging), DrawUpdate)
            after == DrawDeletions(before)
            offset == deletion_offset(before)
            removed == Min(before.pending_deletions, offset)
            old == before.input_wrapped.content
        IN  before # Panicked =>
                /\ offset # PANIC
                /\ (removed > 0 /\ ~(before.input_cursor[1] > 0
                                       /\ before.input_cursor[2] = 0)) =>
                        before.input_cursor[2] >= 1
                /\ after # Panicked
                /\ after.pending_deletions = 0
                /\ Len(after.input_wrapped.content) = Len(old) - removed
                /\ SubSeq(after.input_wrapped.content, 1, offset - removed)
                      = SubSeq(old, 1, offset - removed)

----------------------------------------------------------------------------
(* Further properties of the stream decoders, checked under SpecStream. *)

\* C34: in the OpenAI-shaped decoder a `data:` event whose JSON has no string
\* at choices[0].delta.content forwards no delta and does not end the stream
C34_NoContentNoDelta ==
    [][(api \in {"openai", "groq"}) =>
          \A w \in Workers :
              WorkerLine(w, JsonLine("", NullValue, NullValue)) =>
                  /\ chan' = chan
                  /\ workers'[w].pc = "read"
                  /\ proc' = "running"
    ]_vars

----------------------------------------------------------------------------
(* A further property of rewrap, checked under SpecRewrap. *)

\* C35: rewrap applied once more at the same width, without an edit in
\* between, leaves the content and the line_lengths as the first rewrap left
\* them
C35_RewrapIdempotent ==
    result # NoResult =>
        LET s == [NewChatState(<<>>) EXCEPT !.input_mode = args.input_mode,
                                          !.input_wrapped = result.value,
                                          !.chat_wrapped = result.value]
            again == IF args.input_mode = "Normal"
                     THEN rewrap(s, args.width).chat_wrapped
                     ELSE rewrap(s, args.width).input_wrapped
        IN  /\ again.content = result.value.content
            /\ again.line_lengths = result.value.line_lengths

----------------------------------------------------------------------------
(* Further properties of the chat view's keys, checked under SpecKeys. *)

\* C36: pending_deletions is never above 1: a key event adds at most 1 to
\* it, every tick leaves it at 0, and a tick takes at most one byte out of
\* the input
C36_AtMostOneDeletion ==
    [][/\ state.pending_deletions <= 1
       /\ state'.pending_deletions <= 1
       /\ (Tick /\ proc' = "running") =>
             /\ state'.pending_deletions = 0
             /\ Len(state.input_wrapped.content) - Len(state'.input_wrapped.content) <= 1
    ]_vars

\* a backspace is queued on an input whose cursor has a byte before it
C36_Witness ==
    /\ InChat("tick")
    /\ state.pending_deletions = 1
    /\ state.input_cursor[2] > 0
    /\ Len(state.input_wrapped.content) > 0

----------------------------------------------------------------------------
(* Further properties of the channel, checked under Spec. *)

----------------------------------------------------------------------------
(* display_manager with directory() and conversation_search() step by     *)
(* step.  `args` holds the DirectoryState of the view that runs and the    *)
(* locals of its function; an Option is <<>> or <<x>>, a list index counts *)
(* from 0 as in the code.                                                  *)

\* longest search text typed
MaxSearch == 2

\* the text serde_json::to_string writes for a list of messages
conversation_text(messages) ==
    LET object(m) ==
            <<"{", DQuote>> \o <<"m", "e", "s", "s", "a", "g", "e", "_", "t", "y", "p", "e">>
                \o <<DQuote, ":", DQuote>>
                \o (CASE m.message_type = "User" -> <<"U", "s", "e", "r">>
                      [] m.message_type = "Assistant" ->
                            <<"A", "s", "s", "i", "s", "t", "a", "n", "t">>
                      [] OTHER -> <<"S", "y", "s", "t", "e", "m">>)
                \o <<DQuote, ",", DQuote>> \o <<"c", "o", "n", "t", "e", "n", "t">>
                \o <<DQuote, ":", DQuote>> \o JsonEscape(m.content) \o <<DQuote, "}">>
    IN  <<"[">>
          \o Concat([i \in 1..Len(messages) |->
                        (IF i > 1 THEN <<",">> ELSE <<>>) \o object(messages[i])])
          \o <<"]">>

\* DirectoryState as directory() and conversation_search() build it, with the
\* locals pending_search, filtered_results and chosen_conversation, the list
\* `results` of the last frame, and the channel of directory()
NewDirectoryState(search_results) ==
    [input_mode |-> "Search",
     search_max_width |-> 0,
     search_content |-> <<>>,
     search_cursor |-> 0,
     search_results |-> search_results,
     selected |-> <<>>,
     next_window |-> "Directory",
     pending_search |-> FALSE,
     filtered_results |-> <<>>,
     results |-> <<>>,
     chosen_conversation |-> "",
     requests |-> 0,
     rx |-> <<>>]

\* directory(), lines 712-722
DirectoryEnter ==
    /\ proc = "running" /\ window = "Directory" /\ view_pc = "enter"
    /\ args' = [NewDirectoryState(<<>>) EXCEPT !.requests = args.requests]
    /\ view_pc' = "tick"
    /\ UNCHANGED <<proc, api, workers, chan, overflow_checks, frame, window,
                   state, conversation, conversation_path, disk, result>>

\* directory()'s terminal.draw and rx.try_recv(): the list widget keeps the
\* selection inside the list, the preview slices the selected file's text,
\* and a response that does not parse makes directory() return the error on
\* which display_manager panics
DirectoryFrame ==
    /\ proc = "running" /\ window = "Directory" /\ view_pc = "tick"
    /\ LET items == args.search_results
           selected == IF items = <<>> THEN <<>>
                       ELSE IF args.selected # <<>> /\ args.selected[1] >= Len(items)
                            THEN <<Len(items) - 1>>
                            ELSE args.selected
           sliced == selected = <<>> \/
                        items[selected[1] + 1].subset[2] <=
                            Len(conversation_text(disk[items[selected[1] + 1].filepath]))
       IN  IF ~sliced \/ (args.rx # <<>> /\ Head(args.rx) = Failed)
           THEN proc' = "panicked" /\ UNCHANGED <<args, view_pc>>
           ELSE /\ args' = [args EXCEPT
                               !.search_max_width = frame.width,
                               !.selected = selected,
                               !.results = [i \in 1..Len(items) |-> items[i].filepath],
                               !.search_results =
                                   IF args.rx = <<>> THEN @ ELSE Head(args.rx).value,
                               !.rx = IF @ = <<>> THEN @ ELSE Tail(@)]
                /\ view_pc' = "read"
                /\ UNCHANGED proc
    /\ UNCHANGED <<api, workers, chan, overflow_checks, frame, window,
                   state, conversation, conversation_path, disk, result>>

\* a key press read by directory()
DirectoryKey(k) ==
    /\ proc = "running" /\ window = "Directory" /\ view_pc = "read"
    /\ LET leaves == args.input_mode = "Files" /\ (k.code = "Tab" \/ IsChar(k, "q"))
           len == Len(args.search_content)
           cursor == args.search_cursor
           s == IF args.input_mode = "Files"
                THEN CASE k.code = "Tab" -> [args EXCEPT !.next_window = WindowNext(@)]
                       [] IsChar(k, "q") -> [args EXCEPT !.next_window = "Exit"]
                       [] IsChar(k, "s") -> [args EXCEPT !.input_mode = "Search"]
                       [] k.code = "Up" ->
                            [args EXCEPT !.selected =
                                IF @ = <<>> THEN <<UsizeMax>>
                                ELSE <<IF @[1] > 0 THEN @[1] - 1 ELSE 0>>]
                       [] k.code = "Down" ->
                            [args EXCEPT !.selected =
                                IF @ = <<>> THEN <<0>>
                                ELSE <<IF @[1] < UsizeMax THEN @[1] + 1 ELSE @[1]>>]
                       [] OTHER -> args
                ELSE CASE k.code = "Esc" -> [args EXCEPT !.input_mode = "Files"]
                       [] k.code = "Char" ->
                            IF len < args.search_max_width
                            THEN [args EXCEPT
                                    !.search_content = Append(@, k.c),
                                    !.search_cursor =
                                        IF @ < args.search_max_width THEN @ + 1 ELSE @]
                            ELSE args
                       [] k.code = "Enter" -> [args EXCEPT !.requests = @ + 1]
                       [] k.code = "Backspace" ->
                            IF cursor > 0
                            THEN [args EXCEPT
                                    !.search_content =
                                        SubSeq(@, 1, cursor - 1) \o SubSeq(@, cursor + 1, len),
                                    !.search_cursor = @ - 1]
                            ELSE args
                       [] k.code = "Left" ->
                            IF cursor > 0 THEN [args EXCEPT !.search_cursor = @ - 1]
                            ELSE args
                       [] k.code = "Right" ->
                            IF cursor < args.search_max_width /\ cursor < len
                            THEN [args EXCEPT !.search_cursor = @ + 1]
                            ELSE args
                       [] OTHER -> args
       IN  /\ args' = s
           /\ IF leaves
              THEN window' = s.next_window /\ view_pc' = "enter"
              ELSE window' = window /\ view_pc' = "tick"
    /\ UNCHANGED <<proc, api, workers, chan, overflow_checks, frame,
                   state, conversation, conversation_path, disk, result>>

\* the thread directory() spawns on Enter: tcp_request fails and the process
\* exits, or the response is sent to directory()'s channel; after directory()
\* has returned the send fails and only the thread panics
DeweyRequest(response) ==
    /\ proc = "running"
    /\ args.requests > 0
    /\ IF response = Panicked
       THEN proc' = "exited" /\ UNCHANGED args
       ELSE /\ args' = [args EXCEPT
                           !.requests = @ - 1,
                           !.rx = IF window = "Directory" /\ view_pc # "enter"
                                  THEN Append(@, response) ELSE @]
            /\ UNCHANGED proc
    /\ UNCHANGED <<api, workers, chan, overflow_checks, frame, window, view_pc,
                   state, conversation, conversation_path, disk, result>>

\* conversation_search(), lines 916-945: the files of the conversations
\* directory, sorted by name, last name first
SearchEnter ==
    /\ proc = "running" /\ window = "Load" /\ view_pc = "enter"
    /\ LET ascending == <<"c1", "c2">>
           conversations ==
               [i \in 1..Len(ascending) |->
                   [filepath |-> ascending[Len(ascending) + 1 - i], subset |-> <<0, 0>>]]
       IN  args' = [NewDirectoryState(conversations) EXCEPT !.requests = args.requests]
    /\ view_pc' = "tick"
    /\ UNCHANGED <<proc, api, workers, chan, overflow_checks, frame, window,
                   state, conversation, conversation_path, disk, result>>

\* conversation_search()'s terminal.draw: `due` says that more than 500 ms
\* have gone by since the last search; a file matches when one of the chunks
\* read from it, each as long as the search text, contains the search text
SearchFrame(due) ==
    /\ proc = "running" /\ window = "Load" /\ view_pc = "tick"
    /\ LET search == args.search_content
           n == Len(search)
           matches(name) ==
               LET text == conversation_text(disk[name])
               IN  n > 0 /\ \E j \in 0..(Len(text) \div n) :
                                j * n + n <= Len(text)
                                    /\ SubSeq(text, j * n + 1, j * n + n) = search
           kept == IF n = 0 THEN <<>> ELSE args.filtered_results
           searches == args.pending_search /\ due
           all == [i \in 1..Len(args.search_results) |-> args.search_results[i].filepath]
           filtered_results == IF searches THEN SelectSeq(all, matches) ELSE kept
           results == IF searches \/ n > 0 THEN filtered_results ELSE all
           selected == IF results = <<>> THEN <<>>
                       ELSE IF args.selected # <<>> /\ args.selected[1] >= Len(results)
                            THEN <<Len(results) - 1>>
                            ELSE args.selected
       IN  args' = [args EXCEPT
                       !.search_max_width = frame.width,
                       !.pending_search = IF searches THEN FALSE ELSE @,
                       !.filtered_results = filtered_results,
                       !.results = results,
                       !.selected = selected]
    /\ view_pc' = "read"
    /\ UNCHANGED <<proc, api, workers, chan, overflow_checks, frame, window,
                   state, conversation, conversation_path, disk, result>>

\* a key press read by conversation_search(); on leaving, display_manager
\* takes the chosen conversation's path if there is one
SearchKey(k) ==
    /\ proc = "running" /\ window = "Load" /\ view_pc = "read"
    /\ LET chooses == args.input_mode = "Files" /\ k.code = "Enter" /\ args.selected # <<>>
           leaves == args.input_mode = "Files" /\ (k.code = "Tab" \/ IsChar(k, "q"))
           len == Len(args.search_content)
           cursor == args.search_cursor
           s == IF args.input_mode = "Files"
                THEN CASE k.code = "Tab" -> [args EXCEPT !.next_window = WindowNext(@)]
                       [] IsChar(k, "q") -> [args EXCEPT !.next_window = "Exit"]
                       [] IsChar(k, "s") -> [args EXCEPT !.input_mode = "Search"]
                       [] chooses ->
                            IF args.selected[1] >= Len(args.search_results)
                            THEN Panicked
                            ELSE [args EXCEPT
                                    !.chosen_conversation =
                                        args.search_results[args.selected[1] + 1].filepath,
                                    !.next_window = "Chat"]
                       [] k.code = "Up" ->
                            [args EXCEPT !.selected =
                                IF @ = <<>> THEN <<UsizeMax>>
                                ELSE <<IF @[1] > 0 THEN @[1] - 1 ELSE 0>>]
                       [] k.code = "Down" ->
                            [args EXCEPT !.selected =
                                IF @ = <<>> THEN <<0>>
                                ELSE <<IF @[1] < UsizeMax THEN @[1] + 1 ELSE @[1]>>]
                       [] OTHER -> args
                ELSE CASE k.code = "Esc" -> [args EXCEPT !.input_mode = "Files"]
                       [] k.code = "Char" ->
                            IF len < args.search_max_width
                            THEN [args EXCEPT
                                    !.search_content = Append(@, k.c),
                                    !.search_cursor =
                                        IF @ < args.search_max_width THEN @ + 1 ELSE @,
                                    !.pending_search = TRUE]
                            ELSE args
                       [] k.code = "Backspace" ->
                            IF cursor > 0
                            THEN [args EXCEPT
                                    !.search_content =
                                        SubSeq(@, 1, cursor - 1) \o SubSeq(@, cursor + 1, len),
                                    !.search_cursor = @ - 1,
                                    !.pending_search = TRUE]
                            ELSE args
                       [] k.code = "Left" ->
                            IF cursor > 0 THEN [args EXCEPT !.search_cursor = @ - 1]
                            ELSE args
                       [] k.code = "Right" ->
                            IF cursor < args.search_max_width /\ cursor < len
                            THEN [args EXCEPT !.search_cursor = @ + 1]
                            ELSE args
                       [] OTHER -> args
       IN  IF s = Panicked
           THEN proc' = "panicked" /\ UNCHANGED <<args, window, view_pc, conversation_path>>
           ELSE /\ args' = s
                /\ UNCHANGED proc
                /\ IF leaves \/ chooses
                   THEN /\ window' = s.next_window
                        /\ view_pc' = "enter"
                        /\ conversation_path' =
                               IF s.chosen_conversation # "" THEN s.chosen_conversation
                               ELSE conversation_path
                   ELSE /\ window' = window
                        /\ view_pc' = "tick"
                        /\ UNCHANGED conversation_path
    /\ UNCHANGED <<api, workers, chan, overflow_checks, frame,
                   state, conversation, disk, result>>

\* event::poll(25 ms) returns false in directory() or conversation_search()
ViewPollTimeout ==
    /\ proc = "running" /\ window \in {"Directory", "Load"} /\ view_pc = "read"
    /\ view_pc' = "tick"
    /\ UNCHANGED <<proc, api, workers, chan, overflow_checks, frame, window,
                   state, conversation, conversation_path, disk, args, result>>

\* display_manager called on the chat view of conversation c1, which holds
\* one message; c2 is an empty conversation
InitViews ==
    /\ proc = "running"
    /\ api = "openai"
    /\ workers = [w \in Workers |-> IdleWorker]
    /\ chan = <<>>
    /\ overflow_checks = TRUE
    /\ frame = Frame
    /\ window = "Chat"
    /\ view_pc = "enter"
    /\ state = NewChatState(<<>>)
    /\ conversation = <<>>
    /\ conversation_path = "c1"
    /\ disk = [p \in {"c1", "c2"} |->
                  IF p = "c1" THEN <<Message("User", <<"z">>)>> ELSE <<>>]
    /\ args = NewDirectoryState(<<>>)
    /\ result = NoResult

SpecViews ==
    InitViews /\
    [][LET keys == {KeyEvent(code, "", "none") :
                       code \in {"Tab", "Esc", "Enter", "Up", "Down", "Backspace",
                                 "Left", "Right"}}
                     \cup {KeyEvent("Char", c, "none") : c \in {"q", "s", "i", "l"}}
       IN  \/ ChatEnter
           \/ Tick
           \/ \E k \in keys : k.code \in {"Tab", "Esc", "Char"} /\ NormalKey(k)
           \/ \E k \in keys :
                 /\ k.code \in {"Tab", "Esc", "Char"}
                 /\ (k.code = "Char" =>
                        Len(state.input_wrapped.content) < 1 /\ k.c = "q")
                 /\ InsertKey(k)
           \/ \E k \in keys : LeaveChat(k)
           \/ DirectoryEnter
           \/ DirectoryFrame
           \/ \E k \in keys :
                 /\ ((args.input_mode = "Search" /\ k.code = "Char") =>
                        Len(args.search_content) < MaxSearch /\ k.c \in {"q", "s"})
                 /\ (k.code = "Enter" => args.requests < 1)
                 /\ DirectoryKey(k)
           \/ \E response \in {Panicked, Failed, Returned(<<>>),
                               Returned(<<[filepath |-> "c1", subset |-> <<0, 2>>]>>),
                               Returned(<<[filepath |-> "c2", subset |-> <<0, 8>>]>>)} :
                 DeweyRequest(response)
           \/ SearchEnter
           \/ \E due \in BOOLEAN : SearchFrame(due)
           \/ \E k \in keys :
                 /\ ((args.input_mode = "Search" /\ k.code = "Char") =>
                        Len(args.search_content) < MaxSearch /\ k.c \in {"q", "s"})
                 /\ SearchKey(k)
           \/ ViewPollTimeout
           \/ ManagerExit
      ]_vars

\* C38: display_manager returns only from the view Exit; a view becomes Exit
\* only by the key q read in Normal mode of the chat view or in Files mode of
\* directory() and conversation_search(); Tab leads to Chat or Directory or
\* leaves the view as it is, never to Exit
C38_ExitOnlyByQ ==
    [][LET q == KeyEvent("Char", "q", "none")
           tab == KeyEvent("Tab", "", "none")
       IN  /\ (proc = "running" /\ proc' = "returned") => window = "Exit"
           /\ (window # "Exit" /\ window' = "Exit") =>
                 \/ state.input_mode = "Normal" /\ LeaveChat(q)
                 \/ args.input_mode = "Files" /\ (DirectoryKey(q) \/ SearchKey(q))
           /\ (NormalKey(tab) \/ InsertKey(tab) \/ LeaveChat(tab)
                 \/ DirectoryKey(tab) \/ SearchKey(tab)) =>
                 /\ window' \in {"Chat", "Directory", window}
                 /\ window' # "Exit"
                 /\ proc' = "running"
    ]_vars

\* display_manager has returned after q in Files mode, and Tab had led from
\* the chat view to directory()
C38_Witness ==
    /\ proc = "returned"
    /\ window = "Exit"
    /\ args.next_window = "Exit"
    /\ args.input_mode = "Files"
    /\ state.next_window = "Directory"

\* C39: Enter on the highlighted entry of conversation_search()'s list opens
\* the conversation whose name the list highlights and the preview shows,
\* with a filtered list as with the whole list
C39_EnterOpensHighlighted ==
    [][(/\ window = "Load"
        /\ args.input_mode = "Files"
        /\ args.selected # <<>>
        /\ SearchKey(KeyEvent("Enter", "", "none"))) =>
            /\ window' = "Chat"
            /\ conversation_path' = args.results[args.selected[1] + 1]
    ]_vars

====
